---- MODULE Spec2Model ----
(***************************************************************************)
(* A model of the rdap_types crate (src/rdap_types/src/lib.rs): the serde  *)
(* decoders and encoders of the RDAP JSON types.  Every decoder is a pure  *)
(* function of its input; the state machine applies one decoder to one     *)
(* input per step and, in a second step, the encoder to the decoded value. *)
(*                                                                         *)
(* Strings are TLA+ strings; a character is a string of length 1.          *)
(* JSON values are records tagged by jt: a string is [jt |-> "string",     *)
(* str], an object is [jt |-> "object", members], members a sequence of    *)
(* <<key, value>> pairs in emission order.                                 *)
(* A decode result is Ok(v) or Err(msg), msg the sequence of the parts of  *)
(* the error message.                                                      *)
(***************************************************************************)
EXTENDS Integers, Sequences, FiniteSets, TLC

VARIABLES op, ty, input, result, output

vars == <<op, ty, input, result, output>>

(***************************************************************************)
(* Bounds of the model.                                                    *)
(***************************************************************************)
\* longest string enumerated exhaustively over ShortAlphabet
MaxLen == 3

(***************************************************************************)
(* Results, options and JSON values.                                       *)
(***************************************************************************)
Ok(v) == [ok |-> TRUE, val |-> v]
Err(msg) == [ok |-> FALSE, err |-> msg]

None == <<>>
Some(v) == <<v>>

JStr(x) == [jt |-> "string", str |-> x]
JObj(ms) == [jt |-> "object", members |-> ms]
NoOutput == [jt |-> "none"]

(***************************************************************************)
(* Characters and case mapping (char::is_uppercase, str::to_lowercase),    *)
(* over the ASCII letters.                                                 *)
(***************************************************************************)
UpperLetters == "ABCDEFGHIJKLMNOPQRSTUVWXYZ"
LowerLetters == "abcdefghijklmnopqrstuvwxyz"

Chars(s) == [i \in 1..Len(s) |-> SubSeq(s, i, i)]

IndexIn(c, letters) ==
    IF \E i \in 1..Len(letters) : SubSeq(letters, i, i) = c
    THEN CHOOSE i \in 1..Len(letters) : SubSeq(letters, i, i) = c
    ELSE 0

is_uppercase(c) == IndexIn(c, UpperLetters) # 0

char_to_lowercase(c) ==
    LET i == IndexIn(c, UpperLetters)
    IN  IF i = 0 THEN c ELSE SubSeq(LowerLetters, i, i)

char_to_uppercase(c) ==
    LET i == IndexIn(c, LowerLetters)
    IN  IF i = 0 THEN c ELSE SubSeq(UpperLetters, i, i)

MapChars(F(_), s) ==
    LET G[i \in 0..Len(s)] ==
            IF i = 0 THEN "" ELSE G[i - 1] \o F(SubSeq(s, i, i))
    IN  G[Len(s)]

to_lowercase(s) == MapChars(char_to_lowercase, s)
to_uppercase(s) == MapChars(char_to_uppercase, s)

\* lib.rs 10-21: lowercases only when some character is uppercase
deserialize_string_lowercase(s) ==
    IF \E i \in 1..Len(s) : is_uppercase(SubSeq(s, i, i))
    THEN to_lowercase(s)
    ELSE s

(***************************************************************************)
(* Lookup in a table of <<wire spelling, variant>> pairs, as a derived or  *)
(* hand-written match does: exact comparison, first entry wins.            *)
(***************************************************************************)
InTable(table, s) == \E i \in 1..Len(table) : table[i][1] = s

Lookup(table, s) ==
    table[CHOOSE i \in 1..Len(table) :
              /\ table[i][1] = s
              /\ \A j \in 1..(i - 1) : table[j][1] # s][2]

WireOf(table, variant) ==
    table[CHOOSE i \in 1..Len(table) : table[i][2] = variant][1]

Known(e, v) == [enum |-> e, variant |-> v, raw |-> ""]
Unknown(e, s) == [enum |-> e, variant |-> "Unknown", raw |-> s]

UnknownVariantError(s) == Err(<<"unknown variant", s>>)

(***************************************************************************)
(* The vocabulary tables of the enumerations.                              *)
(***************************************************************************)
\* lib.rs 147-174: #[serde(rename_all = "lowercase")] enum Role, unit variants
Role_serialize_table ==
    << <<"registrant", "Registrant">>,
       <<"technical", "Technical">>,
       <<"administrative", "Administrative">>,
       <<"abuse", "Abuse">>,
       <<"billing", "Billing">>,
       <<"registrar", "Registrar">>,
       <<"reseller", "Reseller">>,
       <<"sponsor", "Sponsor">>,
       <<"proxy", "Proxy">>,
       <<"notifications", "Notifications">>,
       <<"noc", "Noc">> >>

\* lib.rs 182-195: the match of impl Deserialize for Role
Role_deserialize_table ==
    << <<"registrant", "Registrant">>,
       <<"technical", "Technical">>,
       <<"administrative", "Administrative">>,
       <<"abuse", "Abuse">>,
       <<"biilling", "Billing">>,
       <<"registrar", "Registrar">>,
       <<"reseller", "Reseller">>,
       <<"sponsor", "Sponsor">>,
       <<"proxy", "Proxy">>,
       <<"notifications", "Notifications">>,
       <<"noc", "Noc">> >>

\* lib.rs 222-242: #[serde(rename_all = "kebab-case")] enum JCardItemDataType
JCardItemDataType_table ==
    << <<"text", "Text">>,
       <<"text-list", "TextList">>,
       <<"date-list", "DateList">>,
       <<"time-list", "TimeList">>,
       <<"date-time-list", "DateTimeList">>,
       <<"date-and-or-time-list", "DateAndOrTimeList">>,
       <<"timestamp-list", "TimestampList">>,
       <<"boolean", "Boolean">>,
       <<"integer-list", "IntegerList">>,
       <<"float-list", "FloatList">>,
       <<"uri", "Uri">>,
       <<"utc-offset", "UtcOffset">>,
       <<"language-tag", "LanguageTag">>,
       <<"iana-valuespec", "IanaValuespec">>,
       <<"unknown", "Unknown">> >>

\* lib.rs 402-470: #[serde(rename_all = "lowercase")] enum Status, unit variants
Status_serialize_table ==
    << <<"validated", "Validated">>,
       <<"renew prohibited", "RenewProhibited">>,
       <<"update prohibited", "UpdateProhibited">>,
       <<"transfer prohibited", "TransferProhibited">>,
       <<"delete prohibited", "DeleteProhibited">>,
       <<"proxy", "Proxy">>,
       <<"private", "Private">>,
       <<"removed", "Removed">>,
       <<"obscured", "Obscured">>,
       <<"associated", "Associated">>,
       <<"active", "Active">>,
       <<"inactive", "Inactive">>,
       <<"locked", "Locked">>,
       <<"pending create", "PendingCreate">>,
       <<"pending renew", "PendingRenew">>,
       <<"pending transfer", "PendingTransfer">>,
       <<"pending update", "PendingUpdate">>,
       <<"pending delete", "PendingDelete">>,
       <<"add period", "AddPeriod">>,
       <<"auto renew period", "AutoRenewPeriod">>,
       <<"client delete prohibited", "ClientDeleteProhibited">>,
       <<"client hold", "ClientHold">>,
       <<"client renew prohibited", "ClientRenewProhibited">>,
       <<"client transfer prohibited", "ClientTransferProhibited">>,
       <<"client update prohibited", "ClientUpdateProhibited">>,
       <<"pending restore", "PendingRestore">>,
       <<"redemption period", "RedemptionPeriod">>,
       <<"renew period", "RenewPeriod">>,
       <<"server delete prohibited", "ServerDeleteProhibited">>,
       <<"server renew prohibited", "ServerRenewProhibited">>,
       <<"server transfer prohibited", "ServerTransferProhibited">>,
       <<"server update prohibited", "ServerUpdateProhibited">>,
       <<"server hold", "ServerHold">>,
       <<"transfer period", "TransferPeriod">>,
       <<"ok", "Ok">> >>

\* lib.rs 475-513: the match of impl From<String> for Status
Status_from_table ==
    << <<"validated", "Validated">>,
       <<"renew prohibited", "RenewProhibited">>,
       <<"update prohibited", "UpdateProhibited">>,
       <<"transfer prohibited", "TransferProhibited">>,
       <<"delete prohibited", "DeleteProhibited">>,
       <<"proxy", "Proxy">>,
       <<"private", "Private">>,
       <<"removed", "Removed">>,
       <<"obscured", "Obscured">>,
       <<"associated", "Associated">>,
       <<"active", "Active">>,
       <<"inactive", "Inactive">>,
       <<"locked", "Locked">>,
       <<"pending create", "PendingCreate">>,
       <<"pending renew", "PendingRenew">>,
       <<"pending transfer", "PendingTransfer">>,
       <<"pending update", "PendingUpdate">>,
       <<"pending delete", "PendingDelete">>,
       <<"add period", "AddPeriod">>,
       <<"auto renew period", "AutoRenewPeriod">>,
       <<"client delete prohibited", "ClientDeleteProhibited">>,
       <<"client hold", "ClientHold">>,
       <<"client renew prohibited", "ClientRenewProhibited">>,
       <<"client transfer prohibited", "ClientTransferProhibited">>,
       <<"client update prohibited", "ClientUpdateProhibited">>,
       <<"pending restore", "PendingRestore">>,
       <<"redemption period", "RedemptionPeriod">>,
       <<"renew period", "RenewPeriod">>,
       <<"server delete prohibited", "ServerDeleteProhibited">>,
       <<"server renew prohibited", "ServerRenewProhibited">>,
       <<"server transfer prohibited", "ServerTransferProhibited">>,
       <<"server update prohibited", "ServerUpdateProhibited">>,
       <<"server hold", "ServerHold">>,
       <<"transfer period", "TransferPeriod">>,
       <<"ok", "Ok">> >>

\* lib.rs 549-583: #[serde(rename_all = "lowercase")] enum EventAction
EventAction_table ==
    << <<"registration", "Registration">>,
       <<"reregistration", "Reregistration">>,
       <<"last changed", "LastChanged">>,
       <<"expiration", "Expiration">>,
       <<"deletion", "Deletion">>,
       <<"reinstantiation", "Reinstantiation">>,
       <<"transfer", "Transfer">>,
       <<"locked", "Locked">>,
       <<"unlocked", "Unlocked">>,
       <<"last update of RDAP database", "LastUpdateOfRdapDatabase">>,
       <<"registrar expiration", "RegistrarExpiration">>,
       <<"enum validation expiration", "EnumValidationExpiration">>,
       <<"delegation sign check", "DelegationSignCheck">>,
       <<"soft expiration", "SoftExpiration">>,
       <<"last correct delegation sign check", "LastCorrectDelegationSignCheck">> >>

\* lib.rs 625-650: enum NoticeOrRemarkType
NoticeOrRemarkType_table ==
    << <<"result set truncated due to authorization", "ResultSetTruncatedDueToAuthorization">>,
       <<"result set truncated due to excessive load", "ResultSetTruncatedDueToExcessiveLoad">>,
       <<"result set truncated due to unexplainable reasons", "ResultSetTruncatedDueToUnexplainableReasons">>,
       <<"object truncated due to authorization", "ObjectTruncatedDueToAuthorization">>,
       <<"object truncated due to excessive load", "ObjectTruncatedDueToExcessiveLoad">>,
       <<"object truncated due to unexplainable reasons", "ObjectTruncatedDueToUnexplainableReasons">>,
       <<"object redacted due to authorization", "ObjectRedactedDueToAuthorization">>,
       <<"object truncated due to server policy", "ObjectTruncatedDueToServerPolicy">>,
       <<"response truncated due to authorization", "ResponseTruncatedDueToAuthorization">> >>

(***************************************************************************)
(* The derived codec of an enum of unit variants.  Deserialize accepts     *)
(* exactly the wire spellings of the table and otherwise fails with        *)
(* serde's "unknown variant" error; Serialize emits the wire spelling.     *)
(***************************************************************************)
derive_deserialize(e, table, s) ==
    IF InTable(table, s)
    THEN Ok(Known(e, Lookup(table, s)))
    ELSE UnknownVariantError(s)

derive_serialize(table, v) == JStr(WireOf(table, v.variant))

\* the derived Serialize of the newtype variant Unknown(String) of an
\* externally tagged enum under rename_all = "lowercase": {"unknown": raw}
serialize_newtype_variant(v) == JObj(<< <<"unknown", JStr(v.raw)>> >>)

(***************************************************************************)
(* Role (lib.rs 147-206)                                                   *)
(***************************************************************************)
Role_deserialize_strict(s) == derive_deserialize("Role", Role_deserialize_table, s)

Role_deserialize(s) ==
    IF InTable(Role_deserialize_table, s)
    THEN Ok(Known("Role", Lookup(Role_deserialize_table, s)))
    ELSE Ok(Unknown("Role", s))

Role_serialize(v) ==
    IF v.variant = "Unknown"
    THEN serialize_newtype_variant(v)
    ELSE derive_serialize(Role_serialize_table, v)

(***************************************************************************)
(* Status (lib.rs 402-515): Deserialize goes through From<String>.         *)
(***************************************************************************)
Status_from_standard(s) ==
    IF InTable(Status_from_table, s) /\ s # "ok"
    THEN Known("Status", Lookup(Status_from_table, s))
    ELSE Unknown("Status", s)

Status_from(s) ==
    IF InTable(Status_from_table, s)
    THEN Known("Status", Lookup(Status_from_table, s))
    ELSE Unknown("Status", s)

Status_deserialize(s) == Ok(Status_from(s))

Status_serialize(v) ==
    IF v.variant = "Unknown"
    THEN serialize_newtype_variant(v)
    ELSE derive_serialize(Status_serialize_table, v)

(***************************************************************************)
(* EventAction (lib.rs 549-608)                                            *)
(***************************************************************************)
EventAction_deserialize_original_first(s0) ==
    IF s0 = "last update of RDAP database"
    THEN Ok(Known("EventAction", "LastUpdateOfRdapDatabase"))
    ELSE derive_deserialize("EventAction", EventAction_table,
                            deserialize_string_lowercase(s0))

EventAction_deserialize(s0) ==
    LET s == deserialize_string_lowercase(s0)
    IN  IF s = "last update of rdap database"
        THEN Ok(Known("EventAction", "LastUpdateOfRdapDatabase"))
        ELSE derive_deserialize("EventAction", EventAction_table, s)

EventAction_serialize(v) == derive_serialize(EventAction_table, v)

(***************************************************************************)
(* NoticeOrRemarkType (lib.rs 625-674)                                     *)
(***************************************************************************)
NoticeOrRemarkType_deserialize(s0) ==
    LET s == deserialize_string_lowercase(s0)
    IN  IF s = "object redacted due to authorization."
        THEN Ok(Known("NoticeOrRemarkType", "ObjectRedactedDueToAuthorization"))
        ELSE derive_deserialize("NoticeOrRemarkType", NoticeOrRemarkType_table, s)

NoticeOrRemarkType_serialize(v) == derive_serialize(NoticeOrRemarkType_table, v)

(***************************************************************************)
(* JCardItemDataType (lib.rs 221-261); Unknown is a unit variant whose     *)
(* wire spelling is "unknown".                                             *)
(***************************************************************************)
JCardItemDataType_deserialize(s0) ==
    derive_deserialize("JCardItemDataType", JCardItemDataType_table,
                       deserialize_string_lowercase(s0))

JCardItemDataType_serialize(v) == derive_serialize(JCardItemDataType_table, v)

(***************************************************************************)
(* The five enumerations the specification calls open, with the table of   *)
(* canonical wire spellings each one encodes.                              *)
(***************************************************************************)
OpenEnums == {"Role", "Status", "EventAction", "NoticeOrRemarkType", "JCardItemDataType"}

WireTable(e) ==
    CASE e = "Role" -> Role_serialize_table
      [] e = "Status" -> Status_serialize_table
      [] e = "EventAction" -> EventAction_table
      [] e = "NoticeOrRemarkType" -> NoticeOrRemarkType_table
      [] e = "JCardItemDataType" -> JCardItemDataType_table

Enum_deserialize(e, s) ==
    CASE e = "Role" -> Role_deserialize(s)
      [] e = "Status" -> Status_deserialize(s)
      [] e = "EventAction" -> EventAction_deserialize(s)
      [] e = "NoticeOrRemarkType" -> NoticeOrRemarkType_deserialize(s)
      [] e = "JCardItemDataType" -> JCardItemDataType_deserialize(s)

Enum_serialize(v) ==
    CASE v.enum = "Role" -> Role_serialize(v)
      [] v.enum = "Status" -> Status_serialize(v)
      [] v.enum = "EventAction" -> EventAction_serialize(v)
      [] v.enum = "NoticeOrRemarkType" -> NoticeOrRemarkType_serialize(v)
      [] v.enum = "JCardItemDataType" -> JCardItemDataType_serialize(v)

(***************************************************************************)
(* Input strings of the enumeration decoders: every canonical spelling of  *)
(* every table, upper-cased and capitalised, the spellings the decoders    *)
(* single out, some strings outside every vocabulary, and every string of  *)
(* at most MaxLen characters over ShortAlphabet.                           *)
(***************************************************************************)
Range(f) == {f[i] : i \in DOMAIN f}

Capitalize(s) ==
    IF s = "" THEN s ELSE char_to_uppercase(SubSeq(s, 1, 1)) \o SubSeq(s, 2, Len(s))

WireSpellings(table) == {table[i][1] : i \in 1..Len(table)}

AllWireSpellings ==
    UNION {WireSpellings(WireTable(e)) : e \in OpenEnums}

ShortAlphabet == {"o", "k", "O", "K", "."}

RECURSIVE StringsOfLen(_)
StringsOfLen(n) ==
    IF n = 0 THEN {""}
    ELSE {s \o c : s \in StringsOfLen(n - 1), c \in ShortAlphabet}

ShortStrings == UNION {StringsOfLen(n) : n \in 0..MaxLen}

OtherStrings ==
    {"biilling", "Biilling", "object redacted due to authorization.",
     "Object Redacted Due To Authorization.", "last update of rdap database",
     "foo", "Foo", "date", "fred_keyset", "pending", "UNKNOWN value"}

EnumInputs ==
    AllWireSpellings
      \cup {to_uppercase(s) : s \in AllWireSpellings}
      \cup {Capitalize(s) : s \in AllWireSpellings}
      \cup OtherStrings
      \cup ShortStrings

(***************************************************************************)
(* Timestamps (lib.rs 23-48).  deserialize_datetime chains four chrono     *)
(* parsers; the model follows chrono's scanners character by character:    *)
(* scan::number(min, max) takes up to max digits and needs min, a literal  *)
(* must match, a numeric strftime item skips leading white space, %z       *)
(* takes a sign, two hour digits, an optional colon and two minute digits, *)
(* the RFC 3339 offset takes 'Z', 'z' or a signed hh:mm with the colon.    *)
(* Field ranges are checked after the whole input has been consumed.       *)
(* Fractional seconds and the leap second 60 are not in the input set.     *)
(* A DateTime<FixedOffset> is the UTC instant (days since 1970-01-01 and   *)
(* second of the day) with the offset in seconds.                          *)
(***************************************************************************)
Digits == "0123456789"

CharAt(s, i) == SubSeq(s, i, i)
IsDigit(c) == IndexIn(c, Digits) # 0
DigitVal(c) == IndexIn(c, Digits) - 1
Contains_nowhere(s, c) == FALSE

\* str::contains(char)
Contains(s, c) == \E i \in 1..Len(s) : CharAt(s, i) = c

\* chrono::format::ParseErrorKind, with the text its Display prints
OUT_OF_RANGE == "input is out of range"
INVALID == "input contains invalid characters"
TOO_SHORT == "premature end of input"
TOO_LONG == "trailing input"
NOT_ENOUGH == "input is not enough for unique date and time"

ParseErrorTexts == {OUT_OF_RANGE, INVALID, TOO_SHORT, TOO_LONG, NOT_ENOUGH}

\* a scanner step: the value scanned and the next position, or an error kind
Scanned(v, p) == [kind |-> "", val |-> v, pos |-> p]
ScanFail(k) == [kind |-> k, val |-> 0, pos |-> 0]

scan_number(s, pos, min, max) ==
    LET avail == Len(s) - pos + 1
        lim == IF avail < max THEN avail ELSE max
        n == CHOOSE k \in 0..lim :
                 /\ \A j \in 0..(k - 1) : IsDigit(CharAt(s, pos + j))
                 /\ k = lim \/ ~IsDigit(CharAt(s, pos + k))
        V[k \in 0..n] ==
            IF k = 0 THEN 0 ELSE V[k - 1] * 10 + DigitVal(CharAt(s, pos + k - 1))
    IN  IF avail < min THEN ScanFail(TOO_SHORT)
        ELSE IF n < min THEN ScanFail(INVALID)
        ELSE Scanned(V[n], pos + n)

scan_char(s, pos, c) ==
    IF pos > Len(s) THEN ScanFail(TOO_SHORT)
    ELSE IF CharAt(s, pos) # c THEN ScanFail(INVALID)
    ELSE Scanned(0, pos + 1)

trim_left(s, pos) ==
    CHOOSE p \in pos..(Len(s) + 1) :
        /\ \A j \in pos..(p - 1) : CharAt(s, j) = " "
        /\ p > Len(s) \/ CharAt(s, p) # " "

\* scan::timezone_offset: sign, hh, the colon rule, mm (00-59); seconds east
timezone_offset(s, pos, colon_required) ==
    LET avail == Len(s) - pos + 1
        sign == CharAt(s, pos)
        h1 == CharAt(s, pos + 1)
        h2 == CharAt(s, pos + 2)
        hours == DigitVal(h1) * 10 + DigitVal(h2)
        hasColon == pos + 3 <= Len(s) /\ CharAt(s, pos + 3) = ":"
        mpos == IF hasColon THEN pos + 4 ELSE pos + 3
        m1 == CharAt(s, mpos)
        m2 == CharAt(s, mpos + 1)
        minutes == DigitVal(m1) * 10 + DigitVal(m2)
        seconds == hours * 3600 + minutes * 60
    IN  IF avail < 1 THEN ScanFail(TOO_SHORT)
        ELSE IF sign \notin {"+", "-"} THEN ScanFail(INVALID)
        ELSE IF avail < 3 THEN ScanFail(TOO_SHORT)
        ELSE IF ~(IsDigit(h1) /\ IsDigit(h2)) THEN ScanFail(INVALID)
        ELSE IF colon_required /\ pos + 3 > Len(s) THEN ScanFail(TOO_SHORT)
        ELSE IF colon_required /\ ~hasColon THEN ScanFail(INVALID)
        ELSE IF mpos + 1 > Len(s) THEN ScanFail(TOO_SHORT)
        ELSE IF ~(IsDigit(m1) /\ IsDigit(m2)) THEN ScanFail(INVALID)
        ELSE IF DigitVal(m1) > 5 THEN ScanFail(OUT_OF_RANGE)
        ELSE Scanned(IF sign = "-" THEN 0 - seconds ELSE seconds, mpos + 2)

\* scan::timezone_offset_zulu: 'Z' or 'z' is offset 0
timezone_offset_zulu(s, pos) ==
    IF pos > Len(s) THEN ScanFail(TOO_SHORT)
    ELSE IF CharAt(s, pos) \in {"Z", "z"} THEN Scanned(0, pos + 1)
    ELSE timezone_offset(s, pos, TRUE)

(***************************************************************************)
(* chrono::format::Parsed: the fields collected by a parse.                *)
(***************************************************************************)
EmptyParsed == [Y |-> 0, m |-> 0, d |-> 0, H |-> 0, M |-> 0, S |-> 0, off |-> None]

ParseOk(f, p) == [kind |-> "", parsed |-> f, pos |-> p]
ParseFail(k) == [kind |-> k, parsed |-> EmptyParsed, pos |-> 0]

SetField(f, name, v) ==
    CASE name = "Y" -> [f EXCEPT !.Y = v]
      [] name = "m" -> [f EXCEPT !.m = v]
      [] name = "d" -> [f EXCEPT !.d = v]
      [] name = "H" -> [f EXCEPT !.H = v]
      [] name = "M" -> [f EXCEPT !.M = v]
      [] name = "S" -> [f EXCEPT !.S = v]
      [] name = "z" -> [f EXCEPT !.off = Some(v)]

NumericItems == {"Y", "m", "d", "H", "M", "S"}
Width(item) == IF item = "Y" THEN 4 ELSE 2

\* one strftime item applied at pos: a numeric field, %z, white space, or a
\* literal character
ParseItem(item, s, pos, f) ==
    IF item \in NumericItems THEN
        LET r == scan_number(s, trim_left(s, pos), 1, Width(item))
        IN  IF r.kind # "" THEN ParseFail(r.kind)
            ELSE ParseOk(SetField(f, item, r.val), r.pos)
    ELSE IF item = "z" THEN
        LET r == timezone_offset(s, trim_left(s, pos), FALSE)
        IN  IF r.kind # "" THEN ParseFail(r.kind)
            ELSE ParseOk(SetField(f, "z", r.val), r.pos)
    ELSE IF item = " " THEN ParseOk(f, trim_left(s, pos))
    ELSE
        LET r == scan_char(s, pos, item)
        IN  IF r.kind # "" THEN ParseFail(r.kind) ELSE ParseOk(f, r.pos)

\* chrono::format::parse: the items in order, then no input may be left
RECURSIVE ParseItems(_, _, _, _, _)
ParseItems(items, i, s, pos, f) ==
    IF i > Len(items)
    THEN IF pos <= Len(s) THEN ParseFail(TOO_LONG) ELSE ParseOk(f, pos)
    ELSE LET r == ParseItem(items[i], s, pos, f)
         IN  IF r.kind # "" THEN r
             ELSE ParseItems(items, i + 1, s, r.pos, r.parsed)

\* the items of the three strftime formats of lib.rs 39, 41, 43
FMT_T == <<"Y", "-", "m", "-", "d", "T", "H", ":", "M", ":", "S">>
FMT_T_Z_OFFSET == <<"Y", "-", "m", "-", "d", "T", "H", ":", "M", ":", "S", "Z", "z">>
FMT_SPACE == <<"Y", "-", "m", "-", "d", " ", "H", ":", "M", ":", "S">>

\* chrono's RFC 3339 parser: fixed widths, 'T' or 't', then the offset
parse_rfc3339_fields(s) ==
    LET y == scan_number(s, 1, 4, 4)
        c1 == scan_char(s, y.pos, "-")
        mo == scan_number(s, c1.pos, 2, 2)
        c2 == scan_char(s, mo.pos, "-")
        d == scan_number(s, c2.pos, 2, 2)
        tpos == d.pos
        h == scan_number(s, tpos + 1, 2, 2)
        c3 == scan_char(s, h.pos, ":")
        mi == scan_number(s, c3.pos, 2, 2)
        c4 == scan_char(s, mi.pos, ":")
        se == scan_number(s, c4.pos, 2, 2)
        z == timezone_offset_zulu(s, se.pos)
    IN  IF y.kind # "" THEN ParseFail(y.kind)
        ELSE IF c1.kind # "" THEN ParseFail(c1.kind)
        ELSE IF mo.kind # "" THEN ParseFail(mo.kind)
        ELSE IF c2.kind # "" THEN ParseFail(c2.kind)
        ELSE IF d.kind # "" THEN ParseFail(d.kind)
        ELSE IF tpos > Len(s) THEN ParseFail(TOO_SHORT)
        ELSE IF CharAt(s, tpos) \notin {"T", "t"} THEN ParseFail(INVALID)
        ELSE IF h.kind # "" THEN ParseFail(h.kind)
        ELSE IF c3.kind # "" THEN ParseFail(c3.kind)
        ELSE IF mi.kind # "" THEN ParseFail(mi.kind)
        ELSE IF c4.kind # "" THEN ParseFail(c4.kind)
        ELSE IF se.kind # "" THEN ParseFail(se.kind)
        ELSE IF z.kind # "" THEN ParseFail(z.kind)
        ELSE IF z.pos <= Len(s) THEN ParseFail(TOO_LONG)
        ELSE ParseOk([Y |-> y.val, m |-> mo.val, d |-> d.val, H |-> h.val,
                      M |-> mi.val, S |-> se.val, off |-> Some(z.val)], z.pos)

(***************************************************************************)
(* The proleptic Gregorian calendar.                                       *)
(***************************************************************************)
IsLeapYear(y) == y % 4 = 0 /\ (y % 100 # 0 \/ y % 400 = 0)

DaysInMonth(y, m) ==
    IF m = 2 THEN (IF IsLeapYear(y) THEN 29 ELSE 28)
    ELSE IF m \in {4, 6, 9, 11} THEN 30 ELSE 31

DaysFromCivil(y, m, d) ==
    LET yy == IF m <= 2 THEN y - 1 ELSE y
        era == yy \div 400
        yoe == yy - era * 400
        mp == (m + 9) % 12
        doy == (153 * mp + 2) \div 5 + d - 1
        doe == yoe * 365 + yoe \div 4 - yoe \div 100 + doy
    IN  era * 146097 + doe - 719468

CivilFromDays(z) ==
    LET zz == z + 719468
        era == zz \div 146097
        doe == zz - era * 146097
        yoe == (doe - doe \div 1460 + doe \div 36524 - doe \div 146096) \div 365
        doy == doe - (365 * yoe + yoe \div 4 - yoe \div 100)
        mp == (5 * doy + 2) \div 153
        d == doy - (153 * mp + 2) \div 5 + 1
        m == IF mp < 10 THEN mp + 3 ELSE mp - 9
        y == yoe + era * 400 + (IF m <= 2 THEN 1 ELSE 0)
    IN  [y |-> y, m |-> m, d |-> d]

SecondsPerDay == 24 * 60 * 60

\* Parsed::to_datetime_with_timezone / to_datetime: the fields must name a
\* real date and time; the local fields minus the offset give the instant
FieldsInRange(f) ==
    /\ f.m \in 1..12
    /\ f.d \in 1..DaysInMonth(f.Y, f.m)
    /\ f.H \in 0..23
    /\ f.M \in 0..59
    /\ f.S \in 0..59

DateTimeAt(utcDays, utcSecs, offset) ==
    [days |-> utcDays, secs |-> utcSecs, offset |-> offset]

ToDateTimeIgnoringOffset(f, offset) ==
    DateTimeAt(DaysFromCivil(f.Y, f.m, f.d), f.H * 3600 + f.M * 60 + f.S, offset)

ToDateTime(f, offset) ==
    LET local == f.H * 3600 + f.M * 60 + f.S - offset
    IN  DateTimeAt(DaysFromCivil(f.Y, f.m, f.d) + local \div SecondsPerDay,
                   local % SecondsPerDay, offset)

Finish(r, defaultOffset) ==
    IF r.kind # "" THEN Err(<<r.kind>>)
    ELSE IF r.parsed.off = None /\ defaultOffset = None THEN Err(<<NOT_ENOUGH>>)
    ELSE LET offset == IF r.parsed.off # None THEN r.parsed.off[1]
                       ELSE defaultOffset[1]
         IN  IF ~FieldsInRange(r.parsed)
                  \/ offset <= 0 - SecondsPerDay \/ offset >= SecondsPerDay
             THEN Err(<<OUT_OF_RANGE>>)
             ELSE Ok(ToDateTime(r.parsed, offset))

\* DateTime::parse_from_rfc3339
parse_from_rfc3339(s) == Finish(parse_rfc3339_fields(s), None)

\* DateTime::parse_from_str(s, fmt): the format must give the offset
parse_from_str(s, fmt) == Finish(ParseItems(fmt, 1, s, 1, EmptyParsed), None)

\* Utc.datetime_from_str(s, fmt).map(|d| d.with_timezone(&Utc.fix())):
\* without a parsed offset the fields are UTC
Utc_datetime_from_str(s, fmt) == Finish(ParseItems(fmt, 1, s, 1, EmptyParsed), Some(0))

OrElse(r, alt) == IF r.ok THEN r ELSE alt

deserialize_datetime_first_error(s) ==
    LET first == parse_from_rfc3339(s)
        rest == IF Contains(s, "T")
                THEN OrElse(Utc_datetime_from_str(s, FMT_T),
                            parse_from_str(s, FMT_T_Z_OFFSET))
                ELSE Utc_datetime_from_str(s, FMT_SPACE)
    IN  IF first.ok \/ rest.ok THEN OrElse(first, rest) ELSE first

\* lib.rs 30-48
deserialize_datetime(s) ==
    OrElse(parse_from_rfc3339(s),
           IF Contains(s, "T")
           THEN OrElse(Utc_datetime_from_str(s, FMT_T),
                       parse_from_str(s, FMT_T_Z_OFFSET))
           ELSE Utc_datetime_from_str(s, FMT_SPACE))

(***************************************************************************)
(* DateTime::to_rfc3339 (lib.rs 1128-1159): the local fields, that is the  *)
(* instant plus the offset, then the offset as a sign and hh:mm.           *)
(***************************************************************************)
Digit(n) == SubSeq(Digits, n + 1, n + 1)
Pad2(n) == Digit(n \div 10) \o Digit(n % 10)
Pad4(n) == Pad2(n \div 100) \o Pad2(n % 100)

FormatOffset(offset) ==
    LET a == IF offset < 0 THEN 0 - offset ELSE offset
    IN  (IF offset < 0 THEN "-" ELSE "+")
            \o Pad2(a \div 3600) \o ":" \o Pad2((a % 3600) \div 60)

FormatLocal(days, secs) ==
    LET c == CivilFromDays(days)
    IN  Pad4(c.y) \o "-" \o Pad2(c.m) \o "-" \o Pad2(c.d) \o "T"
            \o Pad2(secs \div 3600) \o ":" \o Pad2((secs % 3600) \div 60)
            \o ":" \o Pad2(secs % 60)

to_rfc3339(dt) ==
    LET local == dt.secs + dt.offset
    IN  FormatLocal(dt.days + local \div SecondsPerDay, local % SecondsPerDay)
            \o FormatOffset(dt.offset)

(***************************************************************************)
(* Input strings of the timestamp decoder: a date, a separator, a time and *)
(* a suffix, in every combination, and some strings of no such shape.      *)
(***************************************************************************)
GoodDates == {"1990-12-31", "2015-08-25", "2016-02-29", "2011-07-05"}
OtherDates == {"2019-02-30", "2019-13-01", "2011-7-5", "19-09-20"}
GoodTimes == {"23:59:59", "00:00:00", "08:18:43"}
OtherTimes == {"24:00:00", "11:45", "8:18:43"}
Separators == {"T", " ", "t", ""}
ColonOffsets == {"+08:00", "-04:00", "+00:00", "-23:59"}
\* an offset without its colon: +hhmm
Compact(o) == SubSeq(o, 1, 3) \o SubSeq(o, 5, 6)
CompactOffsets == {Compact(o) : o \in ColonOffsets}
Suffixes ==
    {"", "Z", "z", " UTC", "+08:60", "+8", "Z+24:00"}
        \cup ColonOffsets
        \cup CompactOffsets
        \cup {"Z" \o o : o \in ColonOffsets \cup CompactOffsets}

DateTimeInputs ==
    {d \o sep \o t \o x : d \in GoodDates \cup OtherDates, sep \in Separators,
                          t \in GoodTimes \cup OtherTimes, x \in Suffixes}
        \cup {" ", "T", "yesterday", "Today", "2019-09-20", "2019-09-20T"}

(***************************************************************************)
(* CountryCode (lib.rs 50-120).  The string is the sequence of its UTF-8   *)
(* bytes, as str::as_bytes gives it.                                       *)
(***************************************************************************)
MaxCodeLen == 3

\* a JSON string given by its UTF-8 bytes
JUtf8(bs) == [jt |-> "string", utf8 |-> bs]

\* u8::is_ascii
byte_is_ascii(b) == b < 128

\* <[u8]>::is_ascii
is_ascii(bs) == \A i \in 1..Len(bs) : byte_is_ascii(bs[i])

to_ascii_unchanged(b) == b

\* u8::to_ascii_uppercase
to_ascii_uppercase(b) == IF b >= 97 /\ b <= 122 THEN b - 32 ELSE b

CountryCode(b0, b1) == [code |-> <<b0, b1>>]

\* lib.rs 56-69: impl FromStr for CountryCode
CountryCode_from_str(bs) ==
    IF ~is_ascii(bs) \/ Len(bs) # 2
    THEN Err(<<"string is not two letter ascii">>)
    ELSE Ok(CountryCode(to_ascii_uppercase(bs[1]), to_ascii_uppercase(bs[2])))

\* lib.rs 77-82: impl Display: each byte written as a char (its code point)
CountryCode_fmt(c) == <<c.code[1], c.code[2]>>

\* lib.rs 84-92: impl Serialize: the two bytes as a string
CountryCode_serialize(c) == JUtf8(c.code)

\* lib.rs 94-120: impl Deserialize: from_str, its error replaced by
\* invalid_value(Unexpected::Str(v), "expecting a two letters country code")
CountryCode_deserialize(bs) ==
    LET r == CountryCode_from_str(bs)
    IN  IF r.ok THEN r
        ELSE Err(<<"invalid value", bs, "expecting a two letters country code">>)

\* the bytes of 'C', 'Z', 'c', 'z', '1', ' ', '@' and '{'
AsciiBytes == {67, 90, 99, 122, 49, 32, 64, 123}

\* the UTF-8 bytes of U+010C, a two-byte character
NonAscii == <<196, 140>>

RECURSIVE BytesOfLen(_)
BytesOfLen(n) ==
    IF n = 0 THEN {<<>>}
    ELSE {Append(s, b) : s \in BytesOfLen(n - 1), b \in AsciiBytes}

CountryCodeInputs ==
    UNION {BytesOfLen(n) : n \in 0..MaxCodeLen}
        \cup {NonAscii, NonAscii \o <<90>>, <<67>> \o NonAscii, NonAscii \o NonAscii}

(***************************************************************************)
(* Records and the Object dispatcher (lib.rs 359-399, 525-546, 610-622,    *)
(* 707-917).  A struct is a table of <<wire name, member type, required>>  *)
(* in declaration order.  Member types: "string"; "array" (a Vec whose     *)
(* elements are not decoded here, or the JCard); "objects" (Vec<Object>);  *)
(* "object" (Object); "events" (Vec<Event>); "eventAction"; "datetime";    *)
(* "any" (a member whose own decoder is not part of this model: the        *)
(* documents hold a well-typed value there and it is kept as it is).       *)
(***************************************************************************)
\* lib.rs 754-783: struct AutNum
AutNum_fields ==
    << <<"handle", "string", TRUE>>,
       <<"startAutnum", "any", FALSE>>,
       <<"endAutnum", "any", FALSE>>,
       <<"name", "string", FALSE>>,
       <<"country", "any", FALSE>>,
       <<"type", "string", FALSE>>,
       <<"entities", "objects", TRUE>>,
       <<"links", "array", FALSE>>,
       <<"remarks", "array", FALSE>>,
       <<"events", "events", FALSE>>,
       <<"rdapConformance", "array", FALSE>>,
       <<"notices", "array", FALSE>>,
       <<"port43", "string", FALSE>>,
       <<"status", "array", FALSE>>,
       <<"lang", "string", FALSE>> >>

\* lib.rs 881-917: struct Domain
Domain_fields ==
    << <<"handle", "string", FALSE>>,
       <<"ldhName", "string", FALSE>>,
       <<"unicodeName", "string", FALSE>>,
       <<"entities", "objects", TRUE>>,
       <<"links", "array", FALSE>>,
       <<"variants", "array", FALSE>>,
       <<"nameservers", "objects", FALSE>>,
       <<"secureDNS", "any", FALSE>>,
       <<"remarks", "array", FALSE>>,
       <<"events", "events", TRUE>>,
       <<"network", "object", FALSE>>,
       <<"rdapConformance", "array", FALSE>>,
       <<"notices", "array", FALSE>>,
       <<"port43", "string", FALSE>>,
       <<"status", "array", FALSE>>,
       <<"lang", "string", FALSE>>,
       <<"fredKeyset", "object", FALSE>>,
       <<"fredNsset", "object", FALSE>> >>

\* lib.rs 361-386: struct Entity
Entity_fields ==
    << <<"handle", "string", FALSE>>,
       <<"vcardArray", "array", FALSE>>,
       <<"roles", "array", FALSE>>,
       <<"publicIds", "array", FALSE>>,
       <<"entities", "objects", FALSE>>,
       <<"remarks", "array", FALSE>>,
       <<"links", "array", FALSE>>,
       <<"events", "events", FALSE>>,
       <<"asEventActor", "events", FALSE>>,
       <<"status", "array", FALSE>>,
       <<"port43", "string", FALSE>>,
       <<"lang", "string", FALSE>> >>

\* lib.rs 862-867: struct FredKeySet
FredKeySet_fields ==
    << <<"links", "array", TRUE>>,
       <<"handle", "string", TRUE>>,
       <<"dns_keys", "array", TRUE>> >>

\* lib.rs 872-876: struct FredNsSet
FredNsSet_fields ==
    << <<"links", "array", TRUE>>,
       <<"handle", "string", TRUE>>,
       <<"nameservers", "array", TRUE>> >>

\* lib.rs 709-749: struct IpNetwork
IpNetwork_fields ==
    << <<"handle", "string", TRUE>>,
       <<"startAddress", "any", TRUE>>,
       <<"endAddress", "any", TRUE>>,
       <<"ipVersion", "any", TRUE>>,
       <<"name", "string", FALSE>>,
       <<"country", "any", FALSE>>,
       <<"parentHandle", "string", FALSE>>,
       <<"type", "string", FALSE>>,
       <<"entities", "objects", FALSE>>,
       <<"links", "array", FALSE>>,
       <<"remarks", "array", FALSE>>,
       <<"events", "events", FALSE>>,
       <<"rdapConformance", "array", FALSE>>,
       <<"notices", "array", FALSE>>,
       <<"port43", "string", FALSE>>,
       <<"status", "array", FALSE>>,
       <<"lang", "string", FALSE>>,
       <<"cidr0_cidrs", "array", FALSE>>,
       <<"arin_originas0_originautnums", "array", FALSE>> >>

\* lib.rs 528-546: struct Nameserver
Nameserver_fields ==
    << <<"handle", "string", FALSE>>,
       <<"ldhName", "string", TRUE>>,
       <<"unicodeName", "string", FALSE>>,
       <<"ipAddresses", "any", FALSE>>,
       <<"entities", "objects", FALSE>>,
       <<"status", "array", FALSE>>,
       <<"remarks", "array", FALSE>>,
       <<"notices", "array", FALSE>>,
       <<"links", "array", FALSE>> >>

\* lib.rs 613-622: struct Event
Event_fields ==
    << <<"eventActor", "string", FALSE>>,
       <<"eventAction", "eventAction", TRUE>>,
       <<"eventDate", "datetime", TRUE>>,
       <<"links", "any", FALSE>> >>

\* lib.rs 388-399: #[serde(tag = "objectClassName", rename_all = "lowercase")]
Object_tag_field == "objectClassName"

Object_tags_renamed_all ==
    << <<"autnum", "AutNum">>,
       <<"domain", "Domain">>,
       <<"entity", "Entity">>,
       <<"fredkeyset", "FredKeySet">>,
       <<"frednsset", "FredNsSet">>,
       <<"ipnetwork", "IpNetwork">>,
       <<"nameserver", "Nameserver">> >>

Object_tags ==
    << <<"autnum", "AutNum">>,
       <<"domain", "Domain">>,
       <<"entity", "Entity">>,
       <<"fredkeyset", "FredKeySet">>,
       <<"frednsset", "FredNsSet">>,
       <<"ip network", "IpNetwork">>,
       <<"nameserver", "Nameserver">> >>

FieldsOf(kind) ==
    CASE kind = "AutNum" -> AutNum_fields
      [] kind = "Domain" -> Domain_fields
      [] kind = "Entity" -> Entity_fields
      [] kind = "FredKeySet" -> FredKeySet_fields
      [] kind = "FredNsSet" -> FredNsSet_fields
      [] kind = "IpNetwork" -> IpNetwork_fields
      [] kind = "Nameserver" -> Nameserver_fields
      [] kind = "Event" -> Event_fields

JArr(xs) == [jt |-> "array", items |-> xs]
JNull == [jt |-> "null"]

\* a decoded struct: its kind and, per field of the table, Some(value) or None
Struct(k, values) == [kind |-> k, fields |-> values]

MissingField(name) == Err(<<"missing field", name>>)
DuplicateField(name) == Err(<<"duplicate field", name>>)
InvalidType(v, expected) == Err(<<"invalid type", v.jt, expected>>)

Collect_skipping_errors(rs) ==
    LET oks == SelectSeq(rs, LAMBDA r : r.ok)
    IN  Ok([i \in 1..Len(oks) |-> oks[i].val])

\* the first error of a sequence of results, or Ok of the sequence of values
Collect(rs) ==
    IF \E i \in 1..Len(rs) : ~rs[i].ok
    THEN rs[CHOOSE i \in 1..Len(rs) : ~rs[i].ok /\ \A j \in 1..(i - 1) : rs[j].ok]
    ELSE Ok([i \in 1..Len(rs) |-> rs[i].val])

FieldIndex(table, key) ==
    IF \E i \in 1..Len(table) : table[i][1] = key
    THEN CHOOSE i \in 1..Len(table) : table[i][1] = key
    ELSE 0

HasKey(members, key) == \E i \in 1..Len(members) : members[i][1] = key

ValueOf(members, key) ==
    members[CHOOSE i \in 1..Len(members) :
                /\ members[i][1] = key
                /\ \A j \in 1..(i - 1) : members[j][1] # key][2]

WithoutKey(members, key) ==
    SelectSeq(members, LAMBDA m : m[1] # key)

RECURSIVE Object_deserialize(_)
RECURSIVE Struct_deserialize(_, _)
RECURSIVE Field_deserialize(_, _)

\* the Deserialize of one member type
Field_deserialize(type, v) ==
    CASE type = "string" ->
            IF v.jt = "string" THEN Ok(v.str) ELSE InvalidType(v, "a string")
      [] type = "array" ->
            IF v.jt = "array" THEN Ok(v) ELSE InvalidType(v, "a sequence")
      [] type = "any" -> Ok(v)
      [] type = "objects" ->
            IF v.jt = "array"
            THEN Collect([i \in 1..Len(v.items) |-> Object_deserialize(v.items[i])])
            ELSE InvalidType(v, "a sequence")
      [] type = "object" -> Object_deserialize(v)
      [] type = "events" ->
            IF v.jt = "array"
            THEN Collect([i \in 1..Len(v.items) |->
                             IF v.items[i].jt = "object"
                             THEN Struct_deserialize("Event", v.items[i].members)
                             ELSE InvalidType(v.items[i], "struct Event")])
            ELSE InvalidType(v, "a sequence")
      [] type = "eventAction" ->
            IF v.jt = "string" THEN EventAction_deserialize(v.str)
            ELSE InvalidType(v, "a string")
      [] type = "datetime" ->
            IF v.jt = "string" THEN deserialize_datetime(v.str)
            ELSE InvalidType(v, "a string")

\* the derived Deserialize of a struct from the members of a JSON object,
\* in document order: a member that is no field is ignored, a field met
\* twice or a member that does not decode ends the decode with that error,
\* null for an Option field is None, and at the end every required field
\* must have been met
Struct_deserialize(kind, members) ==
    LET table == FieldsOf(kind)
        n == Len(members)
        idx(i) == FieldIndex(table, members[i][1])
        dup(i) == idx(i) # 0 /\ \E j \in 1..(i - 1) : members[j][1] = members[i][1]
        isNone(i) == ~table[idx(i)][3] /\ members[i][2] = JNull
        res(i) ==
            IF idx(i) = 0 THEN Ok(members[i][2])
            ELSE IF dup(i) THEN DuplicateField(members[i][1])
            ELSE IF isNone(i) THEN Ok(None)
            ELSE Field_deserialize(table[idx(i)][2], members[i][2])
        rs == [i \in 1..n |-> res(i)]
        bad == {i \in 1..n : ~rs[i].ok}
        missing == {f \in 1..Len(table) : table[f][3] /\ ~HasKey(members, table[f][1])}
        first(S) == CHOOSE i \in S : \A j \in S : i <= j
        at(f) == CHOOSE i \in 1..n : members[i][1] = table[f][1]
        valueOf(f) ==
            IF HasKey(members, table[f][1]) /\ ~isNone(at(f))
            THEN Some(rs[at(f)].val)
            ELSE None
    IN  IF bad # {} THEN rs[first(bad)]
        ELSE IF missing # {} THEN MissingField(table[first(missing)][1])
        ELSE Ok(Struct(kind, [f \in 1..Len(table) |-> valueOf(f)]))

Object_variant_lowercased(tag) ==
    IF InTable(Object_tags, to_lowercase(tag))
    THEN Ok(Lookup(Object_tags, to_lowercase(tag)))
    ELSE UnknownVariantError(tag)

Object_variant_with_fallback(tag) ==
    IF InTable(Object_tags, tag)
    THEN Ok(Lookup(Object_tags, tag))
    ELSE Ok("Entity")

\* the variant an objectClassName value selects: an exact match of the tag
Object_variant(tag) ==
    IF InTable(Object_tags, tag)
    THEN Ok(Lookup(Object_tags, tag))
    ELSE UnknownVariantError(tag)

\* lib.rs 388-399: the derived Deserialize of the internally tagged enum
Object_deserialize(v) ==
    IF v.jt # "object" THEN InvalidType(v, "internally tagged enum Object")
    ELSE IF ~HasKey(v.members, Object_tag_field) THEN MissingField(Object_tag_field)
    ELSE IF Len(v.members) - Len(WithoutKey(v.members, Object_tag_field)) > 1
         THEN DuplicateField(Object_tag_field)
    ELSE LET tag == ValueOf(v.members, Object_tag_field)
         IN  IF tag.jt # "string" THEN InvalidType(tag, "variant identifier")
             ELSE LET variant == Object_variant(tag.str)
                  IN  IF ~variant.ok THEN variant
                      ELSE Struct_deserialize(variant.val,
                                              WithoutKey(v.members, Object_tag_field))

RECURSIVE Object_serialize(_)
RECURSIVE Struct_serialize(_)
RECURSIVE Field_serialize(_, _)

Field_serialize(type, x) ==
    CASE type = "string" -> JStr(x)
      [] type \in {"array", "any"} -> x
      [] type = "objects" -> JArr([i \in 1..Len(x) |-> Object_serialize(x[i])])
      [] type = "object" -> Object_serialize(x)
      [] type = "events" -> JArr([i \in 1..Len(x) |-> JObj(Struct_serialize(x[i]))])
      [] type = "eventAction" -> EventAction_serialize(x)
      [] type = "datetime" -> JStr(to_rfc3339(x))

Struct_serialize_with_nulls(s) ==
    LET table == FieldsOf(s.kind)
    IN  [f \in 1..Len(table) |->
            <<table[f][1],
              IF s.fields[f] = None THEN JNull
              ELSE Field_serialize(table[f][2], s.fields[f][1])>>]

\* the derived Serialize of a struct: the members in declaration order, a
\* field that is None left out (skip_serializing_if = "Option::is_none")
Struct_serialize(s) ==
    LET table == FieldsOf(s.kind)
        F[f \in 0..Len(table)] ==
            IF f = 0 THEN <<>>
            ELSE IF s.fields[f] = None THEN F[f - 1]
            ELSE Append(F[f - 1],
                        <<table[f][1], Field_serialize(table[f][2], s.fields[f][1])>>)
    IN  F[Len(table)]

Object_tag_swapped(kind) ==
    WireOf(Object_tags, IF kind = "FredKeySet" THEN "FredNsSet" ELSE kind)

\* the tag the variant of a kind is serialized under
Object_tag(kind) == WireOf(Object_tags, kind)

\* lib.rs 388-399: the derived Serialize: the tag member, then the struct's
Object_serialize(o) ==
    JObj(<< <<Object_tag_field, JStr(Object_tag(o.kind))>> >> \o Struct_serialize(o))

(***************************************************************************)
(* The documents the dispatcher is run on.                                 *)
(***************************************************************************)
MaxNest == 2

\* a well-typed value of a member whose decoder is not modelled
Opaque == [jt |-> "opaque"]

\* a well-typed value of a member type
SampleValue(type) ==
    CASE type = "string" -> JStr("x")
      [] type \in {"array", "objects", "events"} -> JArr(<<>>)
      [] type = "any" -> Opaque
      [] type = "object" -> JObj(<< <<Object_tag_field, JStr("entity")>> >>)

\* a value no member type other than "any" accepts
IllTyped == [jt |-> "number"]

ObjectKinds == {Object_tags[i][2] : i \in 1..Len(Object_tags)}
CanonicalTags == {Object_tags[i][1] : i \in 1..Len(Object_tags)}

Member(field) == <<field[1], SampleValue(field[2])>>

\* the required members of a kind, in declaration order
RequiredMembers(kind) ==
    LET req == SelectSeq(FieldsOf(kind), LAMBDA f : f[3])
    IN  [i \in 1..Len(req) |-> Member(req[i])]

DropAt(seq, i) == SubSeq(seq, 1, i - 1) \o SubSeq(seq, i + 1, Len(seq))

SetMember(members, key, v) ==
    WithoutKey(members, key) \o << <<key, v>> >>

EventDoc(action, date) ==
    JObj(<< <<"eventAction", JStr(action)>>, <<"eventDate", JStr(date)>> >>)

EventLists ==
    { JArr(<< EventDoc("registration", "2015-08-25T00:00:00Z") >>),
      JArr(<< EventDoc("Last Changed", "1990-12-31T23:59:59+08:00"),
              EventDoc("expiration", "2016-02-29 08:18:43") >>),
      JArr(<< EventDoc("registration", "yesterday") >>),
      JArr(<< EventDoc("created", "2015-08-25T00:00:00Z") >>),
      JArr(<< JObj(<< <<"eventAction", JStr("registration")>> >>) >>),
      JArr(<< JObj(<< <<"eventActor", JNull>>,
                      <<"eventAction", JStr("registration")>>,
                      <<"eventDate", JStr("2015-08-25T00:00:00Z")>> >>) >>) }

\* an entity that holds a chain of d further entities
RECURSIVE EntityChain(_)
EntityChain(d) ==
    JObj(<< <<Object_tag_field, JStr("entity")>>, <<"handle", JStr("x")>> >>
         \o IF d = 0 THEN <<>>
            ELSE << <<"entities", JArr(<< EntityChain(d - 1) >>)>> >>)

EntityWith(key, v) ==
    JObj(<< <<Object_tag_field, JStr("entity")>>, <<key, v>> >>)

EntityLists ==
    {JArr(<< EntityChain(d) >>) : d \in 0..(MaxNest - 1)}
        \cup { JArr(<< JObj(<< <<Object_tag_field, JStr("Entity")>> >>) >>),
               JArr(<< JObj(<< <<"handle", JStr("x")>> >>) >>),
               JArr(<< JStr("x") >>),
               JArr(<< EntityWith("events",
                           JArr(<< EventDoc("registration", "yesterday") >>)) >>),
               JArr(<< EntityWith("entities",
                           JArr(<< EntityChain(0),
                                   EntityWith("asEventActor",
                                       JArr(<< EventDoc("registration", "2019-02-30T00:00:00Z") >>)) >>)) >>),
               JArr(<< EntityWith("entities",
                           JArr(<< EntityWith("events",
                                       JArr(<< EventDoc("registration", "2015-08-25T00:00:00Z") >>)) >>)) >>),
               JArr(<< EntityChain(0),
                       JObj(<< <<Object_tag_field, JStr("nameserver")>>,
                               <<"ldhName", JStr("x")>> >>) >>) }

HasField(kind, key) == FieldIndex(FieldsOf(kind), key) # 0

\* the members of a kind with its required fields only, with one more
\* member, with one required member left out or ill-typed
BasicBodies(kind) ==
    LET r == RequiredMembers(kind)
    IN  {r, r \o << <<"port43", JStr("x")>> >>, r \o << <<"handle", JNull>> >>}

OtherBodies(kind) ==
    LET r == RequiredMembers(kind)
        typed == {i \in 1..Len(r) : FieldsOf(kind)[FieldIndex(FieldsOf(kind), r[i][1])][2] # "any"}
    IN  {DropAt(r, i) : i \in 1..Len(r)}
            \cup {[r EXCEPT ![i] = <<r[i][1], IllTyped>>] : i \in typed}
            \cup {r \o << r[i] >> : i \in 1..Len(r)}
            \cup (IF HasField(kind, "events")
                  THEN {SetMember(r, "events", e) : e \in EventLists} ELSE {})
            \cup (IF HasField(kind, "entities")
                  THEN {SetMember(r, "entities", e) : e \in EntityLists} ELSE {})

\* the objectClassName values documents carry
DocumentTags ==
    {"autnum", "domain", "entity", "fredkeyset", "frednsset", "ip network",
     "nameserver"}

CaseVariantTags ==
    ({Capitalize(t) : t \in DocumentTags}
        \cup {to_uppercase(t) : t \in DocumentTags}
        \cup {"IP Network", "fredKeyset"}) \ DocumentTags

UnknownTags == {"ip_network", "ipnetwork", "keyset", "help", ""}

TagMembers ==
    {<< <<Object_tag_field, JStr(t)>> >> :
        t \in DocumentTags \cup CaseVariantTags \cup UnknownTags}
        \cup { <<>>, << <<Object_tag_field, IllTyped>> >>,
               << <<"objectclassname", JStr("domain")>> >> }

ObjectDocs ==
    {JObj(t \o b) : t \in TagMembers, b \in UNION {BasicBodies(k) : k \in ObjectKinds}}
        \cup {JObj(<< <<Object_tag_field, JStr(t)>> >> \o b) :
                 t \in DocumentTags, b \in UNION {OtherBodies(k) : k \in ObjectKinds}}
        \cup {JObj(b \o << <<Object_tag_field, JStr(t)>> >>) :
                 t \in DocumentTags \cup {"Domain", "help"},
                 b \in UNION {BasicBodies(k) : k \in ObjectKinds}}
        \cup {JObj(<< <<Object_tag_field, JStr("domain")>>,
                      <<Object_tag_field, JStr("entity")>> >>)}
        \cup {EntityChain(MaxNest), JStr("domain")}

(***************************************************************************)
(* JCard (lib.rs 215-219, 263-357).  A serde_json::Value is the JSON tree  *)
(* itself; the members of an object are held in a serde_json::Map, which   *)
(* keeps one entry per key, in key order (a BTreeMap) or, when serde_json  *)
(* is built with preserve_order, in the order of first insertion.          *)
(***************************************************************************)
MaxValues == 2

\* the characters of keys, in the order of their bytes
ByteOrder == "-0123456789" \o UpperLetters \o "_" \o LowerLetters

\* a < b as str::cmp compares: byte by byte, a proper prefix first
StrLess(a, b) ==
    LET n == IF Len(a) < Len(b) THEN Len(a) ELSE Len(b)
        differ == {i \in 1..n : SubSeq(a, i, i) # SubSeq(b, i, i)}
        d == CHOOSE i \in differ : \A j \in differ : i <= j
    IN  IF differ = {} THEN Len(a) < Len(b)
        ELSE IndexIn(SubSeq(a, d, d), ByteOrder) < IndexIn(SubSeq(b, d, d), ByteOrder)

\* Map::insert of each member in turn: a key met again replaces the value
\* and keeps the entry's place
Map_insert_all(members) ==
    LET first == {i \in 1..Len(members) :
                     \A j \in 1..(i - 1) : members[j][1] # members[i][1]}
        last(k) == CHOOSE i \in 1..Len(members) :
                       /\ members[i][1] = k
                       /\ \A j \in (i + 1)..Len(members) : members[j][1] # k
        F[i \in 0..Len(members)] ==
            IF i = 0 THEN <<>>
            ELSE IF i \in first
                 THEN Append(F[i - 1], <<members[i][1], members[last(members[i][1])][2]>>)
                 ELSE F[i - 1]
    IN  F[Len(members)]

\* the entries in key order
Map_sorted(entries) ==
    LET rank(i) == Cardinality({j \in 1..Len(entries) : StrLess(entries[j][1], entries[i][1])})
    IN  [r \in 1..Len(entries) |->
            entries[CHOOSE i \in 1..Len(entries) : rank(i) = r - 1]]

\* the entries of the Map a JSON object decodes to, in the order the Map
\* iterates them
Map_deserialize(members, preserve_order) ==
    IF preserve_order THEN Map_insert_all(members)
    ELSE Map_sorted(Map_insert_all(members))

\* Deserialize for serde_json::Value
RECURSIVE Value_deserialize(_, _)
Value_deserialize(v, preserve_order) ==
    CASE v.jt = "object" ->
            JObj(Map_deserialize(
                     [i \in 1..Len(v.members) |->
                         <<v.members[i][1],
                           Value_deserialize(v.members[i][2], preserve_order)>>],
                     preserve_order))
      [] v.jt = "array" ->
            JArr([i \in 1..Len(v.items) |-> Value_deserialize(v.items[i], preserve_order)])
      [] OTHER -> v

\* lib.rs 289-290
InvalidLength(size) == Err(<<"invalid length", size, "at least four elements">>)

JCardItem(name, params, type, vals) ==
    [property_name |-> name, parameters |-> params,
     type_identifier |-> type, values |-> vals]

property_name_as_sent(s) == s

\* lib.rs 293-297: lowercased when some character is uppercase
property_name_lowercase(s) ==
    IF \E i \in 1..Len(s) : is_uppercase(SubSeq(s, i, i))
    THEN to_lowercase(s)
    ELSE s

JCardItem_values_never_empty(vals) == FALSE

\* lib.rs 307: values.is_empty()
JCardItem_values_is_empty(vals) == Len(vals) = 0

\* lib.rs 271-322: impl Deserialize for JCardItem (JCardItemVisitor::visit_seq)
JCardItem_deserialize(v, preserve_order) ==
    IF v.jt # "array" THEN InvalidType(v, "a sequence")
    ELSE
    LET xs == v.items
        n == Len(xs)
        data_type == JCardItemDataType_deserialize(xs[3].str)
        vals == [i \in 1..(n - 3) |-> Value_deserialize(xs[i + 3], preserve_order)]
    IN  IF n = 0 THEN InvalidLength(0)
        ELSE IF xs[1].jt # "string" THEN InvalidType(xs[1], "a string")
        ELSE IF n = 1 THEN InvalidLength(1)
        ELSE IF xs[2].jt # "object" THEN InvalidType(xs[2], "a map")
        ELSE IF n = 2 THEN InvalidLength(2)
        ELSE IF xs[3].jt # "string" THEN InvalidType(xs[3], "a string")
        ELSE IF ~data_type.ok THEN data_type
        ELSE IF JCardItem_values_is_empty(vals) THEN InvalidLength(3)
        ELSE Ok(JCardItem(property_name_lowercase(xs[1].str),
                          Value_deserialize(xs[2], preserve_order).members,
                          data_type.val,
                          vals))

JCardItem_serialize_values_first(item) ==
    JArr(item.values
         \o << JStr(item.property_name),
                JObj(item.parameters),
                JCardItemDataType_serialize(item.type_identifier) >>)

\* lib.rs 324-338: impl Serialize for JCardItem
JCardItem_serialize(item) ==
    JArr(<< JStr(item.property_name),
            JObj(item.parameters),
            JCardItemDataType_serialize(item.type_identifier) >>
         \o item.values)

JCardType_deserialize_any(v) == Ok("Vcard")

\* lib.rs 215-219: enum JCardType, derived Deserialize
JCardType_deserialize(v) ==
    IF v.jt # "string" THEN InvalidType(v, "variant identifier")
    ELSE IF v.str = "vcard" THEN Ok("Vcard")
    ELSE UnknownVariantError(v.str)

\* lib.rs 215-219: enum JCardType, derived Serialize
JCardType_serialize(t) == JStr("vcard")

JCardInvalidLength(size) ==
    Err(<<"invalid length", size, "tuple struct JCard with 2 elements">>)

\* lib.rs 341-342: struct JCard(JCardType, Vec<JCardItem>), derived
\* Deserialize; an array longer than the tuple is not read to its end
JCard_deserialize(v, preserve_order) ==
    IF v.jt # "array" THEN InvalidType(v, "tuple struct JCard")
    ELSE
    LET xs == v.items
        n == Len(xs)
        card_type == JCardType_deserialize(xs[1])
        card_items == Collect([i \in 1..Len(xs[2].items) |->
                             JCardItem_deserialize(xs[2].items[i], preserve_order)])
    IN  IF n = 0 THEN JCardInvalidLength(0)
        ELSE IF ~card_type.ok THEN card_type
        ELSE IF n = 1 THEN JCardInvalidLength(1)
        ELSE IF xs[2].jt # "array" THEN InvalidType(xs[2], "a sequence")
        ELSE IF ~card_items.ok THEN card_items
        ELSE IF n > 2 THEN Err(<<"trailing characters">>)
        ELSE Ok([typ |-> card_type.val, items |-> card_items.val])

\* lib.rs 341-342: struct JCard, derived Serialize
JCard_serialize(card) ==
    JArr(<< JCardType_serialize(card.typ),
            JArr([i \in 1..Len(card.items) |-> JCardItem_serialize(card.items[i])]) >>)

JCard_items_by_name_ignoring_case(card, name) ==
    SelectSeq(card.items, LAMBDA p : to_lowercase(p.property_name) = to_lowercase(name))

\* lib.rs 353-356: JCard::items_by_name
JCard_items_by_name(card, name) ==
    SelectSeq(card.items, LAMBDA p : p.property_name = name)

\* the items a lookup by name returned
ItemsFound(n, its) == [jt |-> "found", name |-> n, found |-> its]

(***************************************************************************)
(* The JCard items and JCards the codec is run on.                         *)
(***************************************************************************)
NameSlots == {JStr("fn"), JStr("FN"), JStr("Adr"), IllTyped}

ParameterSlots ==
    { JObj(<<>>),
      JObj(<< <<"cc", JStr("US")>>, <<"iso-3166-1-alpha-2", JStr("US")>> >>),
      JObj(<< <<"type", JStr("work")>>, <<"pref", JStr("1")>> >>),
      JObj(<< <<"cc", JStr("US")>>, <<"cc", JStr("CZ")>> >>),
      JStr("x") }

TypeSlots == {JStr("text"), JStr("URI"), JStr("unknown"), JStr("x-custom"), IllTyped}

ValueSlots == {JStr(""), JStr("4.0"), JArr(<< JStr("a"), JStr("b") >>)}

RECURSIVE ValuesOfLen(_)
ValuesOfLen(n) ==
    IF n = 0 THEN {<<>>}
    ELSE {Append(vs, v) : vs \in ValuesOfLen(n - 1), v \in ValueSlots}

JCardItemInputs ==
    {JArr(<<>>), JStr("fn")}
        \cup {JArr(<<a>>) : a \in NameSlots}
        \cup {JArr(<<a, b>>) : a \in NameSlots, b \in ParameterSlots}
        \cup {JArr(<<a, b, c>> \o vs) :
                 a \in NameSlots, b \in ParameterSlots, c \in TypeSlots,
                 vs \in UNION {ValuesOfLen(n) : n \in 0..MaxValues}}

\* lib.rs 1110: the JCard of parse_vcard_multiple_values
TestCardItems ==
    << JArr(<< JStr("version"), JObj(<<>>), JStr("text"), JStr("4.0") >>),
       JArr(<< JStr("fn"), JObj(<<>>), JStr("text"), JStr("") >>),
       JArr(<< JStr("adr"),
               JObj(<< <<"cc", JStr("US")>>, <<"iso-3166-1-alpha-2", JStr("US")>> >>),
               JStr("text"), JStr(""), JStr(""), JStr(""), JStr(""),
               JStr("Washington"), JStr(""), JStr("") >>),
       JArr(<< JStr("org"), JObj(<<>>), JStr("text"),
               JStr("Amazon Registry Services, Inc.") >>) >>

OtherCardItems ==
    { JArr(<< JStr("tel"),
              JObj(<< <<"type", JArr(<< JStr("work"), JStr("voice") >>)>>,
                      <<"pref", JStr("1")>> >>),
              JStr("uri"), JStr("tel:+1-555-555-1234") >>),
      JArr(<< JStr("email"), JObj(<< <<"type", JStr("work")>> >>),
              JStr("text"), JStr("a"), JStr("b") >>),
      JArr(<< JStr("x"), JObj(<< <<"cc", JStr("US")>>, <<"cc", JStr("CZ")>> >>),
              JStr("unknown"), JStr("") >>),
      JArr(<< JStr("FN"), JObj(<<>>), JStr("text"), JStr("") >>),
      JArr(<< JStr("fn"), JObj(<<>>), JStr("Text"), JStr("") >>),
      JArr(<< JStr("fn"), JObj(<<>>), JStr("x-custom"), JStr("") >>),
      JArr(<< JStr("fn"), JObj(<<>>), JStr("text") >>) }

\* a second item named "FN"
SecondName == JArr(<< JStr("FN"), JObj(<<>>), JStr("text"), JStr("4.0") >>)

\* lib.rs 1115-1117: "adr" and "org" are the names the test looks up
NamesLookedUp == {"adr", "org", "fn", "FN", "Adr", "version", "nothing"}

CardItemLists ==
    {<<>>, TestCardItems, TestCardItems \o <<SecondName>>, <<SecondName>> \o TestCardItems}
        \cup {<<a>> : a \in Range(TestCardItems) \cup OtherCardItems}
        \cup {<<a, b>> : a \in Range(TestCardItems), b \in OtherCardItems}

JCardInputs ==
    {JArr(<< JStr("vcard"), JArr(xs) >>) : xs \in CardItemLists}
        \cup { JArr(<<>>), JArr(<< JStr("vcard") >>), JStr("vcard"),
               JArr(<< JStr("VCARD"), JArr(TestCardItems) >>),
               JArr(<< JStr("vcard"), JObj(<<>>) >>),
               JArr(<< JStr("vcard"), JArr(TestCardItems), JStr("x") >>) }

(***************************************************************************)
(* The error code of an Error response (lib.rs 974-1025): a u16, sent as a *)
(* number or as a string.                                                  *)
(***************************************************************************)
MaxDigits == 3

\* a JSON integer
JNum(n) == [jt |-> "number", num |-> n]

\* u16::MAX
U16_MAX == 2 ^ 16 - 1

u16_truncate(v) == Ok(v % (U16_MAX + 1))

\* lib.rs 993: u16::try_from(v) of a u64
u16_try_from(v) ==
    IF v <= U16_MAX THEN Ok(v) ELSE Err(<<"out of range integral type conversion attempted">>)

\* lib.rs 1002: u16::from_str(v): an optional '+', then decimal digits,
\* the value within the range of u16
u16_from_str(s) ==
    LET signed == Len(s) > 0 /\ CharAt(s, 1) \in {"+", "-"}
        digits == IF Len(s) > 0 /\ CharAt(s, 1) = "+" THEN SubSeq(s, 2, Len(s)) ELSE s
        V[i \in 0..Len(digits)] ==
            IF i = 0 THEN 0
            ELSE IF V[i - 1] > U16_MAX THEN V[i - 1]
            ELSE 10 * V[i - 1] + DigitVal(CharAt(digits, i))
    IN  IF s = "" THEN Err(<<"cannot parse integer from empty string">>)
        ELSE IF signed /\ Len(s) = 1 THEN Err(<<"invalid digit found in string">>)
        ELSE IF \E i \in 1..Len(digits) : ~IsDigit(CharAt(digits, i))
             THEN Err(<<"invalid digit found in string">>)
        ELSE IF V[Len(digits)] > U16_MAX
             THEN Err(<<"number too large to fit in target type">>)
        ELSE Ok(V[Len(digits)])

InvalidValue(v, expected) == Err(<<"invalid value", v, expected>>)

\* lib.rs 976-1008: deserialize_any with ErrorCodeVisitor: visit_u64 for an
\* integer that is not negative, visit_str for a string, and the visitor's
\* default (invalid type) for every other value
deserialize_error_code(v) ==
    CASE v.jt = "number" /\ v.num >= 0 ->
            IF u16_try_from(v.num).ok THEN u16_try_from(v.num)
            ELSE InvalidValue(v, "an error code")
      [] v.jt = "string" ->
            IF u16_from_str(v.str).ok THEN u16_from_str(v.str)
            ELSE InvalidValue(v, "an error code")
      [] OTHER -> InvalidType(v, "expecting an error code as string or number")

\* lib.rs 1011-1015: Error.error_code: u16, derived Serialize
error_code_serialize(n) == JNum(n)

CodeAlphabet == {"4", "1", "8", "0", "+", "-", "a"}

RECURSIVE CodeStringsOfLen(_)
CodeStringsOfLen(n) ==
    IF n = 0 THEN {""}
    ELSE {s \o c : s \in CodeStringsOfLen(n - 1), c \in CodeAlphabet}

CodeStrings ==
    UNION {CodeStringsOfLen(n) : n \in 0..MaxDigits}
        \cup {"65535", "65536", "65954", "99999", "0418", "+0418", "+65535",
              "+65536", " 418", "418 ", "4.18", "4e2", "0x1A"}

CodeNumbers == {0, 1, 400, 418, U16_MAX, U16_MAX + 1, U16_MAX + 1 + 418, 100000, -1, -418}

ErrorCodeInputs ==
    {JStr(s) : s \in CodeStrings}
        \cup {JNum(n) : n \in CodeNumbers}
        \cup {JArr(<<>>), JObj(<<>>), JArr(<< JNum(418) >>)}

(***************************************************************************)
(* Notices and remarks (lib.rs 674-684) and the lookup of a description by *)
(* title (lib.rs 1178-1193).  Of a NoticeOrRemark the lookup reads title   *)
(* and description only; both are Options.                                 *)
(***************************************************************************)
MaxNotices == 2

NoticeOrRemark(t, d) == [title |-> t, description |-> d]

\* the value a lookup returned
Found(x) == [jt |-> "found", found |-> x]

eq_exactly(a, b) == a = b

\* str::eq_ignore_ascii_case: same length, and byte by byte the same after
\* to_ascii_lowercase
eq_ignore_ascii_case(a, b) ==
    /\ Len(a) = Len(b)
    /\ \A i \in 1..Len(a) :
           char_to_lowercase(SubSeq(a, i, i)) = char_to_lowercase(SubSeq(b, i, i))

\* lib.rs 1178-1193: the first remark with a description whose title is the
\* title looked up, or which has no title when "remarks" is looked up
description_by_title(title, notices) ==
    LET described == SelectSeq(notices, LAMBDA p : p.description # None)
        returns(remark) ==
            IF remark.title # None
            THEN eq_ignore_ascii_case(title, remark.title[1])
            ELSE title = "remarks"
        F[i \in 1..(Len(described) + 1)] ==
            IF i > Len(described) THEN None
            ELSE IF returns(described[i]) THEN described[i].description
            ELSE F[i + 1]
    IN  F[1]

(***************************************************************************)
(* The lists and titles the lookup is run on.                              *)
(***************************************************************************)
NoticeTitles == {None, Some("Title"), Some("title"), Some("remarks"), Some("other")}

NoticeDescriptions == {None, Some(<<"Ahoj">>), Some(<<"a", "b">>)}

NoticesOrRemarks ==
    {NoticeOrRemark(t, d) : t \in NoticeTitles, d \in NoticeDescriptions}

RECURSIVE NoticesOfLen(_)
NoticesOfLen(n) ==
    IF n = 0 THEN {<<>>}
    ELSE {Append(ns, p) : ns \in NoticesOfLen(n - 1), p \in NoticesOrRemarks}

\* lib.rs 1172, 1175: "title" and "nothing" are the titles of the test
TitlesLookedUp == {"title", "TITLE", "Title", "nothing", "remarks", "Remarks"}

NoticeLookups ==
    {[title |-> t, notices |-> ns] :
         t \in TitlesLookedUp,
         ns \in UNION {NoticesOfLen(n) : n \in 0..MaxNotices}}

(***************************************************************************)
(* The state machine.  A run takes one input of one type, decodes it, and  *)
(* encodes the decoded value.  ty is the type, input the JSON input, op    *)
(* the last operation applied ("input" before any), result the result of   *)
(* the decode and output the JSON the encode produced.                     *)
(***************************************************************************)
Pending == Err(<<"not decoded">>)

Inputs ==
    (OpenEnums \X {JStr(s) : s \in EnumInputs})
        \cup ({"DateTime"} \X {JStr(s) : s \in DateTimeInputs})
        \cup ({"Object"} \X ObjectDocs)
        \cup ({"CountryCode"} \X {JUtf8(bs) : bs \in CountryCodeInputs})
        \cup ({"JCardItem"} \X JCardItemInputs)
        \cup ({"JCard"} \X JCardInputs)
        \cup ({"ErrorCode"} \X ErrorCodeInputs)
        \cup ({"Notices"} \X NoticeLookups)

Init ==
    /\ op = "input"
    /\ \E i \in Inputs : ty = i[1] /\ input = i[2]
    /\ result = Pending
    /\ output = NoOutput

Decoding(type) ==
    /\ op = "input"
    /\ ty = type
    /\ op' = "decode"
    /\ UNCHANGED <<ty, input, output>>

Encoding(type) ==
    /\ op = "decode"
    /\ ty = type
    /\ result.ok
    /\ op' = "encode"
    /\ UNCHANGED <<ty, input, result>>

DecodeRole == Decoding("Role") /\ result' = Role_deserialize(input.str)
EncodeRole == Encoding("Role") /\ output' = Role_serialize(result.val)

DecodeStatus == Decoding("Status") /\ result' = Status_deserialize(input.str)
EncodeStatus == Encoding("Status") /\ output' = Status_serialize(result.val)

DecodeEventAction ==
    Decoding("EventAction") /\ result' = EventAction_deserialize(input.str)
EncodeEventAction ==
    Encoding("EventAction") /\ output' = EventAction_serialize(result.val)

DecodeNoticeOrRemarkType ==
    Decoding("NoticeOrRemarkType") /\ result' = NoticeOrRemarkType_deserialize(input.str)
EncodeNoticeOrRemarkType ==
    Encoding("NoticeOrRemarkType") /\ output' = NoticeOrRemarkType_serialize(result.val)

DecodeJCardItemDataType ==
    Decoding("JCardItemDataType") /\ result' = JCardItemDataType_deserialize(input.str)
EncodeJCardItemDataType ==
    Encoding("JCardItemDataType") /\ output' = JCardItemDataType_serialize(result.val)

\* an Event's eventDate (lib.rs 618) and the to_rfc3339 of the tests
DecodeDateTime == Decoding("DateTime") /\ result' = deserialize_datetime(input.str)
FormatDateTime == Encoding("DateTime") /\ output' = JStr(to_rfc3339(result.val))

\* lib.rs 1195-1206: serde_json::from_reader into an Object, then to_string
DecodeObject == Decoding("Object") /\ result' = Object_deserialize(input)
EncodeObject == Encoding("Object") /\ output' = Object_serialize(result.val)

DecodeCountryCode ==
    Decoding("CountryCode") /\ result' = CountryCode_deserialize(input.utf8)
EncodeCountryCode ==
    Encoding("CountryCode") /\ output' = CountryCode_serialize(result.val)

DecodeJCardItem ==
    /\ Decoding("JCardItem")
    /\ \E preserve_order \in BOOLEAN :
           result' = JCardItem_deserialize(input, preserve_order)
EncodeJCardItem ==
    Encoding("JCardItem") /\ output' = JCardItem_serialize(result.val)

DecodeJCard ==
    /\ Decoding("JCard")
    /\ \E preserve_order \in BOOLEAN :
           result' = JCard_deserialize(input, preserve_order)
EncodeJCard ==
    Encoding("JCard") /\ output' = JCard_serialize(result.val)

DecodeErrorCode ==
    Decoding("ErrorCode") /\ result' = deserialize_error_code(input)
EncodeErrorCode ==
    Encoding("ErrorCode") /\ output' = error_code_serialize(result.val)

\* lib.rs 1171-1175: a lookup over the list, which it borrows
DescriptionByTitle ==
    /\ op = "input"
    /\ ty = "Notices"
    /\ op' = "lookup"
    /\ output' = Found(description_by_title(input.title, input.notices))
    /\ UNCHANGED <<ty, input, result>>

\* lib.rs 1113-1117: a lookup by name in a decoded JCard, which it borrows
ItemsByName ==
    /\ op = "decode"
    /\ ty = "JCard"
    /\ result.ok
    /\ op' = "lookup"
    /\ \E n \in NamesLookedUp :
           output' = ItemsFound(n, JCard_items_by_name(result.val, n))
    /\ UNCHANGED <<ty, input, result>>

Next ==
    \/ DecodeRole
    \/ EncodeRole
    \/ DecodeStatus
    \/ EncodeStatus
    \/ DecodeEventAction
    \/ EncodeEventAction
    \/ DecodeNoticeOrRemarkType
    \/ EncodeNoticeOrRemarkType
    \/ DecodeJCardItemDataType
    \/ EncodeJCardItemDataType
    \/ DecodeDateTime
    \/ FormatDateTime
    \/ DecodeObject
    \/ EncodeObject
    \/ DecodeCountryCode
    \/ EncodeCountryCode
    \/ DecodeJCardItem
    \/ EncodeJCardItem
    \/ DecodeJCard
    \/ EncodeJCard
    \/ DecodeErrorCode
    \/ EncodeErrorCode
    \/ DescriptionByTitle
    \/ ItemsByName

Spec == Init /\ [][Next]_vars

(***************************************************************************)
(* Vocabulary predicates used by the properties.                           *)
(***************************************************************************)
LowerSpellings(table) == {to_lowercase(w) : w \in WireSpellings(table)}

\* s equals a canonical wire spelling of e up to letter case
IsWireUpToCase(e, s) == to_lowercase(s) \in LowerSpellings(WireTable(e))

CanonicalOf(e, s) ==
    CHOOSE w \in WireSpellings(WireTable(e)) : to_lowercase(w) = to_lowercase(s)

VariantOfWire(e, s) == Lookup(WireTable(e), CanonicalOf(e, s))

\* the spellings a decoder singles out besides the canonical ones
ExtraSpellings(e) ==
    CASE e = "Role" -> {"biilling"}
      [] e = "NoticeOrRemarkType" -> {"object redacted due to authorization."}
      [] OTHER -> {}

\* s is, up to letter case, a canonical spelling of e or a spelling its
\* decoder singles out
InVocabulary(e, s) ==
    IsWireUpToCase(e, s) \/ to_lowercase(s) \in ExtraSpellings(e)

CatchAllEnums == {"Role", "Status"}
ClosedEnums == OpenEnums \ CatchAllEnums

EnumDecoded == ty \in OpenEnums /\ op # "input"

(***************************************************************************)
(* Properties.                                                             *)
(***************************************************************************)

C2_CatchAllRoundTrip ==
    (ty \in OpenEnums /\ op = "encode" /\ ~InVocabulary(ty, input.str))
        => output = JStr(input.str)

\* C3 (as stated): a string equal to a canonical spelling up to letter case
\* decodes to that spelling's known variant, and its encoding is the
\* canonical spelling.
C3_KnownIgnoringCase ==
    (EnumDecoded /\ IsWireUpToCase(ty, input.str)) =>
        /\ result.ok
        /\ result.val = Known(ty, VariantOfWire(ty, input.str))
        /\ op = "encode" => output = JStr(CanonicalOf(ty, input.str))

(***************************************************************************)
(* Timestamps.                                                             *)
(***************************************************************************)
DateTimeDecoded == ty = "DateTime" /\ op # "input"

\* the decode succeeded and, once formatted, the output is the string x
FormatsAs(x) == result.ok /\ (op = "encode" => output = JStr(x))

\* yyyy-mm-ddThh:mm:ss followed by a sign and hh:mm
IsRfc3339Numeric(s) ==
    /\ Len(s) = 25
    /\ \A i \in {1, 2, 3, 4, 6, 7, 9, 10, 12, 13, 15, 16, 18, 19, 21, 22, 24, 25} :
           IsDigit(CharAt(s, i))
    /\ CharAt(s, 5) = "-" /\ CharAt(s, 8) = "-" /\ CharAt(s, 11) = "T"
    /\ CharAt(s, 14) = ":" /\ CharAt(s, 17) = ":" /\ CharAt(s, 23) = ":"
    /\ CharAt(s, 20) \in {"+", "-"}

\* C9: an RFC 3339 input keeps its offset ("Z" becomes +00:00); date'T'time
\* and date-space-time are UTC with the clock fields unchanged;
\* date'T'time'Z'+hhmm takes the numeric offset and ignores the 'Z'; the
\* formatted value is always RFC 3339 with a numeric offset.
C9_OffsetPerGrammar ==
    DateTimeDecoded =>
        /\ \A d \in GoodDates, t \in GoodTimes :
              LET base == d \o "T" \o t
              IN  /\ \A o \in ColonOffsets :
                        /\ input.str = base \o o => FormatsAs(base \o o)
                        /\ input.str = base \o "Z" \o Compact(o) => FormatsAs(base \o o)
                  /\ input.str = base \o "Z" => FormatsAs(base \o "+00:00")
                  /\ input.str = base => FormatsAs(base \o "+00:00")
                  /\ input.str = d \o " " \o t => FormatsAs(base \o "+00:00")
        /\ op = "encode" => IsRfc3339Numeric(output.str)

\* the oracle of the specification: "2015-08-25T00:00:00Z+0800" has been
\* decoded and formatted as "2015-08-25T00:00:00+08:00"
C9_Witness ==
    /\ ty = "DateTime"
    /\ op = "encode"
    /\ input = JStr("2015-08-25T00:00:00Z+0800")
    /\ output = JStr("2015-08-25T00:00:00+08:00")

NoGrammarAccepts(s) ==
    /\ ~parse_from_rfc3339(s).ok
    /\ ~Utc_datetime_from_str(s, FMT_T).ok
    /\ ~parse_from_str(s, FMT_T_Z_OFFSET).ok
    /\ ~Utc_datetime_from_str(s, FMT_SPACE).ok

IsSubstring(a, b) ==
    \E i \in 1..(Len(b) - Len(a) + 1) : SubSeq(b, i, i + Len(a) - 1) = a

\* the input string occurs in the error message
ErrorNamesInput ==
    \E i \in DOMAIN result.err : IsSubstring(input.str, result.err[i])

ObjectDecoded == ty = "Object" /\ op # "input"

\* the document is an object with one objectClassName member, a string
HasTag(v) ==
    /\ v.jt = "object"
    /\ Len(v.members) - Len(WithoutKey(v.members, Object_tag_field)) = 1
    /\ ValueOf(v.members, Object_tag_field).jt = "string"

TagOf(v) == ValueOf(v.members, Object_tag_field).str

\* the members other than the tag satisfy the schema of the kind
SatisfiesSchema(v, kind) ==
    Struct_deserialize(kind, WithoutKey(v.members, Object_tag_field)).ok

\* the canonical tag of each of the seven record kinds
CanonicalTagOfKind ==
    [AutNum |-> "autnum", Domain |-> "domain", Entity |-> "entity",
     FredKeySet |-> "fredkeyset", FredNsSet |-> "frednsset",
     IpNetwork |-> "ip network", Nameserver |-> "nameserver"]

\* C4: a document whose objectClassName is the canonical tag of a kind and
\* whose other members satisfy the schema of that kind decodes, and to that
\* kind
C4_DispatchOnCanonicalTag ==
    (ObjectDecoded /\ HasTag(input)) =>
        \A k \in DOMAIN CanonicalTagOfKind :
            (TagOf(input) = CanonicalTagOfKind[k] /\ SatisfiesSchema(input, k))
                => (result.ok /\ result.val.kind = k)

C4_Witness ==
    /\ ObjectDecoded /\ HasTag(input)
    /\ TagOf(input) = "ip network"
    /\ SatisfiesSchema(input, "IpNetwork")
    /\ result.ok /\ result.val.kind = "IpNetwork"

C6_UnknownTagFails ==
    (ObjectDecoded /\ HasTag(input)
        /\ to_lowercase(TagOf(input)) \notin CanonicalTags)
        => /\ result = UnknownVariantError(TagOf(input))
           /\ op # "encode"
           /\ output = NoOutput

C6_Witness ==
    /\ ObjectDecoded /\ HasTag(input)
    /\ TagOf(input) = "ip_network"
    /\ SatisfiesSchema(input, "IpNetwork")
    /\ ~result.ok

\* C7: the encoding of an Object has one objectClassName member, the
\* canonical tag of its kind; the seven kinds have seven distinct tags; the
\* encoding of a decoded document carries the tag of the document and
\* decodes to the same kind
C7_EncodeReproducesTag ==
    /\ Len(Object_tags) = 7
    /\ Cardinality(CanonicalTags) = 7
    /\ Cardinality(ObjectKinds) = 7
    /\ (ty = "Object" /\ op = "encode") =>
          /\ HasTag(output)
          /\ output.members[1] =
                 <<Object_tag_field, JStr(WireOf(Object_tags, result.val.kind))>>
          /\ TagOf(output) = TagOf(input)
          /\ Object_deserialize(output).ok
          /\ Object_deserialize(output).val.kind = result.val.kind

C7_Witness ==
    /\ ty = "Object" /\ op = "encode"
    /\ result.val.kind = "FredKeySet"
    /\ TagOf(output) = "fredkeyset"

\* the depth to which the Objects of a document nest
RECURSIVE ObjectDepth(_)
ObjectDepth(v) ==
    LET Max(S) == IF S = {} THEN 0 ELSE CHOOSE m \in S : \A n \in S : n <= m
    IN  CASE v.jt = "object" ->
                Max({ObjectDepth(v.members[i][2]) : i \in 1..Len(v.members)})
                    + (IF HasKey(v.members, Object_tag_field) THEN 1 ELSE 0)
          [] v.jt = "array" ->
                Max({ObjectDepth(v.items[i]) : i \in 1..Len(v.items)})
          [] OTHER -> 0

TooDeeplyNested == Err(<<"too deeply nested">>)

\* C8 as stated, with the maximum depth configured to MaxNest: a document
\* that is a chain of entities within entities deeper than the maximum
\* fails decode with the nesting-depth error
C8_NestingDepthBounded ==
    (ObjectDecoded /\ ObjectDepth(input) > MaxNest
        /\ \E d \in 0..MaxNest : input = EntityChain(d))
        => result = TooDeeplyNested

(***************************************************************************)
(* Country codes.                                                          *)
(***************************************************************************)
CountryCodeDecoded == ty = "CountryCode" /\ op # "input"

\* an ASCII letter
is_ascii_alphabetic(b) == (b >= 65 /\ b <= 90) \/ (b >= 97 /\ b <= 122)

to_ascii_lowercase(b) == IF b >= 65 /\ b <= 90 THEN b + 32 ELSE b

TwoAsciiLetters(bs) ==
    Len(bs) = 2 /\ \A i \in 1..Len(bs) : is_ascii_alphabetic(bs[i])

UpperCased(bs) == [i \in 1..Len(bs) |-> to_ascii_uppercase(bs[i])]
LowerCased(bs) == [i \in 1..Len(bs) |-> to_ascii_lowercase(bs[i])]

IsUpperLetter(b) == b >= 65 /\ b <= 90

\* C11: a string of two ASCII letters decodes to the value its upper-cased
\* and its lower-cased form decode to, and display and encode give the two
\* letters in uppercase
C11_CountryCodeCaseNormalized ==
    (CountryCodeDecoded /\ TwoAsciiLetters(input.utf8)) =>
        /\ result.ok
        /\ result = CountryCode_deserialize(UpperCased(input.utf8))
        /\ result = CountryCode_deserialize(LowerCased(input.utf8))
        /\ CountryCode_fmt(result.val) = UpperCased(input.utf8)
        /\ \A i \in 1..2 : IsUpperLetter(CountryCode_fmt(result.val)[i])
        /\ op = "encode" =>
              /\ output = JUtf8(UpperCased(input.utf8))
              /\ \A i \in 1..2 : IsUpperLetter(output.utf8[i])

\* "cz" has been decoded and encoded as "CZ"
C11_Witness ==
    /\ ty = "CountryCode" /\ op = "encode"
    /\ input = JUtf8(<<99, 122>>)
    /\ output = JUtf8(<<67, 90>>)

\* C12 as stated: a string that is not exactly two ASCII letters does not
\* decode
C12_OnlyTwoLettersDecode ==
    (CountryCodeDecoded /\ ~TwoAsciiLetters(input.utf8)) => ~result.ok

(***************************************************************************)
(* JCard.                                                                  *)
(***************************************************************************)
JCardItemDecoded == ty = "JCardItem" /\ op # "input" /\ input.jt = "array"

\* the elements present in the first three slots are a string, an object
\* and a string that is a type identifier up to letter case
SlotsWellTyped(xs) ==
    /\ Len(xs) >= 1 => xs[1].jt = "string"
    /\ Len(xs) >= 2 => xs[2].jt = "object"
    /\ Len(xs) >= 3 => /\ xs[3].jt = "string"
                       /\ InTable(JCardItemDataType_table, to_lowercase(xs[3].str))

IsInvalidLength(r) ==
    /\ ~r.ok
    /\ r.err[1] = "invalid length"
    /\ r.err[3] = "at least four elements"

\* C13 as stated: an item array of fewer than four elements fails with the
\* invalid-length error that states the minimum, and an array of four or
\* more elements with well-typed slots decodes
C13_ShortItemInvalidLength ==
    JCardItemDecoded =>
        /\ Len(input.items) < 4 => IsInvalidLength(result)
        /\ (Len(input.items) >= 4 /\ SlotsWellTyped(input.items)) => result.ok

\* C13 amended: an item array of fewer than four elements fails; the error
\* is the invalid-length error, with the number of elements and the minimum,
\* when the elements present are well typed, and the error of the first
\* ill-typed element otherwise; an array of four or more elements with
\* well-typed slots decodes and keeps every element after the third
C13_ShortWellTypedItemInvalidLength ==
    JCardItemDecoded =>
        /\ Len(input.items) < 4 => ~result.ok
        /\ (Len(input.items) < 4 /\ SlotsWellTyped(input.items))
              => result = InvalidLength(Len(input.items))
        /\ (Len(input.items) < 4 /\ ~SlotsWellTyped(input.items))
              => ~IsInvalidLength(result)
        /\ (Len(input.items) >= 4 /\ SlotsWellTyped(input.items))
              => /\ result.ok
                 /\ Len(result.val.values) = Len(input.items) - 3

C13_Witness ==
    /\ JCardItemDecoded
    /\ Len(input.items) = 3
    /\ SlotsWellTyped(input.items)
    /\ result = InvalidLength(3)

HasUppercase(s) == \E i \in 1..Len(s) : is_uppercase(SubSeq(s, i, i))

\* the item has a lowercase name and a type identifier in its canonical
\* spelling
CanonicalItem(x) ==
    /\ x.jt = "array" /\ Len(x.items) >= 4
    /\ x.items[1].jt = "string" /\ ~HasUppercase(x.items[1].str)
    /\ x.items[2].jt = "object"
    /\ x.items[3].jt = "string"
    /\ InTable(JCardItemDataType_table, x.items[3].str)

CanonicalCard(v) ==
    /\ v.jt = "array" /\ Len(v.items) = 2
    /\ v.items[1] = JStr("vcard")
    /\ v.items[2].jt = "array"
    /\ \A i \in 1..Len(v.items[2].items) : CanonicalItem(v.items[2].items[i])

\* C14 as stated: the encoding of a decoded JCard with lowercase names and
\* canonical type identifiers is the input, every value and every parameter
\* key in its place
C14_JCardRoundTrip ==
    (ty = "JCard" /\ op = "encode" /\ CanonicalCard(input)) => output = input

\* C15: the stored property name of a decoded item has no uppercase
\* character, it is the lowercased name of the input, and the encoding
\* carries it
C15_PropertyNameLowercase ==
    (JCardItemDecoded /\ result.ok) =>
        /\ ~HasUppercase(result.val.property_name)
        /\ result.val.property_name = to_lowercase(input.items[1].str)
        /\ op = "encode" =>
              output.items[1] = JStr(to_lowercase(input.items[1].str))

C15_Witness ==
    /\ ty = "JCardItem" /\ op = "encode"
    /\ input.items[1] = JStr("Adr")
    /\ output.items[1] = JStr("adr")

(***************************************************************************)
(* The error code.                                                         *)
(***************************************************************************)
ErrorCodeDecoded == ty = "ErrorCode" /\ op # "input"

DecimalDigits == "0123456789"

AllDecimalDigits(s) ==
    Len(s) > 0 /\ \A i \in 1..Len(s) : IndexIn(SubSeq(s, i, i), DecimalDigits) # 0

\* the number a string of decimal digits writes
DecimalValue(s) ==
    LET V[i \in 0..Len(s)] ==
            IF i = 0 THEN 0
            ELSE 10 * V[i - 1] + IndexIn(SubSeq(s, i, i), DecimalDigits) - 1
    IN  V[Len(s)]

\* an integer n of the u16 range and the string of its digits decode to n,
\* and an integer above the range does not decode
ErrorCodeOfNumberOrDigits ==
    /\ (input.jt = "number" /\ input.num >= 0 /\ input.num <= 65535)
          => result = Ok(input.num)
    /\ (input.jt = "number" /\ input.num > 65535) => ~result.ok
    /\ (input.jt = "string" /\ AllDecimalDigits(input.str)
            /\ DecimalValue(input.str) <= 65535)
          => /\ result = Ok(DecimalValue(input.str))
             /\ result = deserialize_error_code(JNum(DecimalValue(input.str)))
             /\ op = "encode" => output = JNum(DecimalValue(input.str))

\* C16 as stated: a number and the string of its digits decode to the same
\* integer; a string that is not made only of decimal digits, or an integer
\* above 65535, does not decode
C16_ErrorCodeDigitsOnly ==
    ErrorCodeDecoded =>
        /\ ErrorCodeOfNumberOrDigits
        /\ (input.jt = "string" /\ ~AllDecimalDigits(input.str)) => ~result.ok

\* C16 amended: as stated, but one '+' before the digits is accepted: a
\* string that is not a run of decimal digits with at most one '+' before
\* it does not decode, and "+" and digits decode to the number the digits
\* write
C16_ErrorCodeDigitsAfterPlus ==
    ErrorCodeDecoded =>
        /\ ErrorCodeOfNumberOrDigits
        /\ (input.jt = "string" /\ ~AllDecimalDigits(input.str)) =>
              IF Len(input.str) > 1 /\ SubSeq(input.str, 1, 1) = "+"
                  /\ AllDecimalDigits(SubSeq(input.str, 2, Len(input.str)))
              THEN LET n == DecimalValue(SubSeq(input.str, 2, Len(input.str)))
                   IN  IF n <= 65535 THEN result = Ok(n) ELSE ~result.ok
              ELSE ~result.ok
        /\ (input.jt = "string" /\ AllDecimalDigits(input.str)
               /\ DecimalValue(input.str) > 65535) => ~result.ok

\* "418" has been decoded to 418, the number 418 decodes to
C16_Witness ==
    /\ ErrorCodeDecoded
    /\ input = JStr("418")
    /\ result = Ok(418)
    /\ deserialize_error_code(JNum(418)) = Ok(418)

(***************************************************************************)
(* Records: optional fields and failures.                                  *)
(***************************************************************************)
\* no object of the JSON value has a member whose value is null
RECURSIVE NoNullMember(_)
NoNullMember(v) ==
    CASE v.jt = "object" ->
            \A i \in 1..Len(v.members) :
                v.members[i][2] # JNull /\ NoNullMember(v.members[i][2])
      [] v.jt = "array" -> \A i \in 1..Len(v.items) : NoNullMember(v.items[i])
      [] OTHER -> TRUE

\* C17: the encoding of a record has a member for a field exactly when the
\* field is not None, and no member of it, at any depth, is null
C17_AbsentOptionalOmitted ==
    (ty = "Object" /\ op = "encode") =>
        /\ NoNullMember(output)
        /\ \A f \in 1..Len(FieldsOf(result.val.kind)) :
              (result.val.fields[f] = None)
                  <=> ~HasKey(output.members, FieldsOf(result.val.kind)[f][1])

\* a record sent with "handle": null has been encoded without the member
C17_Witness ==
    /\ ty = "Object" /\ op = "encode"
    /\ HasKey(input.members, "handle")
    /\ ValueOf(input.members, "handle") = JNull
    /\ ~HasKey(output.members, "handle")

\* the kind a canonical tag names
KindOfTag(t) ==
    CHOOSE k \in DOMAIN CanonicalTagOfKind : CanonicalTagOfKind[k] = t

IsCanonicalTag(t) == \E k \in DOMAIN CanonicalTagOfKind : CanonicalTagOfKind[k] = t

RequiredMissing(v) ==
    LET table == FieldsOf(KindOfTag(TagOf(v)))
    IN  \E f \in 1..Len(table) : table[f][3] /\ ~HasKey(v.members, table[f][1])

IsArrayAt(v, key) == HasKey(v.members, key) /\ ValueOf(v.members, key).jt = "array"

BadEvent(x) ==
    /\ x.jt = "object"
    /\ HasKey(x.members, "eventDate")
    /\ ValueOf(x.members, "eventDate").jt = "string"
    /\ NoGrammarAccepts(ValueOf(x.members, "eventDate").str)

\* the record has the field, and an event of the array sent for it has a
\* date that does not parse
BadEventAmong(v, key) ==
    /\ HasField(KindOfTag(TagOf(v)), key)
    /\ IsArrayAt(v, key)
    /\ \E i \in 1..Len(ValueOf(v.members, key).items) :
           BadEvent(ValueOf(v.members, key).items[i])

\* an event with an unparseable date lies in the events of the record or of
\* a record among its entities, at any depth
RECURSIVE BadEventIn(_)
BadEventIn(v) ==
    /\ v.jt = "object" /\ HasTag(v) /\ IsCanonicalTag(TagOf(v))
    /\ \/ BadEventAmong(v, "events")
       \/ BadEventAmong(v, "asEventActor")
       \/ /\ HasField(KindOfTag(TagOf(v)), "entities")
          /\ IsArrayAt(v, "entities")
          /\ \E i \in 1..Len(ValueOf(v.members, "entities").items) :
                 BadEventIn(ValueOf(v.members, "entities").items[i])

\* C18: a record with a required field missing, or with an event whose date
\* does not parse at any depth, does not decode; and a decode that fails
\* gives the error alone: no record, and nothing to encode
C18_DecodeAllOrNothing ==
    ObjectDecoded =>
        /\ (HasTag(input) /\ IsCanonicalTag(TagOf(input)) /\ RequiredMissing(input))
              => ~result.ok
        /\ BadEventIn(input) => ~result.ok
        /\ ~result.ok =>
              /\ DOMAIN result = {"ok", "err"}
              /\ op # "encode"
              /\ output = NoOutput

\* a record whose entity's entity has an event with an unparseable date has
\* been rejected
C18_Witness ==
    /\ ObjectDecoded
    /\ BadEventIn(input)
    /\ ~BadEventAmong(input, "events")
    /\ ObjectDepth(input) >= 3
    /\ ~RequiredMissing(input)
    /\ ~result.ok

(***************************************************************************)
(* The extra status token and the mixed-case event action.                 *)
(***************************************************************************)
\* C19: the status "ok" decodes to the variant Ok, not to the catch-all, and
\* that variant is encoded as "ok"
C19_StatusOkIsKnown ==
    (ty = "Status" /\ op # "input" /\ input = JStr("ok")) =>
        /\ result = Ok(Known("Status", "Ok"))
        /\ result.val.variant # "Unknown"
        /\ Status_serialize(result.val) = JStr("ok")
        /\ op = "encode" => output = JStr("ok")

C19_Witness ==
    /\ ty = "Status" /\ op = "encode"
    /\ input = JStr("ok")
    /\ result.val.variant = "Ok"
    /\ output = JStr("ok")

RdapDatabasePhrase == "last update of RDAP database"

IsRdapDatabasePhrase(s) == to_lowercase(s) = to_lowercase(RdapDatabasePhrase)

\* C20 as stated: the phrase is compared with the input as it was sent,
\* before the lowercase path: the phrase itself decodes to
\* LastUpdateOfRdapDatabase, encoded with "RDAP" in capitals, and any other
\* spelling takes the lowercase path
C20_PhraseMatchedBeforeLowercase ==
    (ty = "EventAction" /\ op # "input" /\ IsRdapDatabasePhrase(input.str)) =>
        IF input.str = RdapDatabasePhrase
        THEN /\ result = Ok(Known("EventAction", "LastUpdateOfRdapDatabase"))
             /\ op = "encode" => output = JStr(RdapDatabasePhrase)
        ELSE result = derive_deserialize("EventAction", EventAction_table,
                                         to_lowercase(input.str))

\* C20 amended: the input is lowercased first and the lowercased string is
\* compared with the lowercased phrase: the phrase in any letter case decodes
\* to LastUpdateOfRdapDatabase, encoded with "RDAP" in capitals
C20_PhraseMatchedAfterLowercase ==
    (ty = "EventAction" /\ op # "input" /\ IsRdapDatabasePhrase(input.str)) =>
        /\ result = Ok(Known("EventAction", "LastUpdateOfRdapDatabase"))
        /\ op = "encode" => output = JStr(RdapDatabasePhrase)

\* the phrase in capitals has been decoded and encoded
C20_Witness ==
    /\ ty = "EventAction" /\ op = "encode"
    /\ input = JStr(to_uppercase(RdapDatabasePhrase))
    /\ output = JStr(RdapDatabasePhrase)

(***************************************************************************)
(* Lookup of a description by title.                                       *)
(***************************************************************************)
SameIgnoringAsciiCase(a, b) == to_uppercase(a) = to_uppercase(b)

\* the entry at i has a description, and its title is the title looked up
\* ignoring case, or it has no title and "remarks" is looked up
Qualifies(title, notices, i) ==
    /\ notices[i].description # None
    /\ \/ /\ notices[i].title # None
          /\ SameIgnoringAsciiCase(notices[i].title[1], title)
       \/ /\ notices[i].title = None
          /\ title = "remarks"

FirstQualifying(title, notices) ==
    CHOOSE i \in 1..Len(notices) :
        /\ Qualifies(title, notices, i)
        /\ \A j \in 1..(i - 1) : ~Qualifies(title, notices, j)

DescriptionOfFirstQualifying ==
    (ty = "Notices" /\ op = "lookup") =>
        IF \E i \in 1..Len(input.notices) : Qualifies(input.title, input.notices, i)
        THEN output = Found(input.notices[FirstQualifying(input.title, input.notices)].description)
        ELSE output = Found(None)

\* C21: the lookup returns the description of the first entry, in list
\* order, that has a description and whose title equals the title looked up
\* ignoring ASCII case or that has no title while "remarks" is looked up;
\* it returns nothing when no entry qualifies, and the list is not modified
C21_DescriptionByTitle ==
    /\ []DescriptionOfFirstQualifying
    /\ [][ty = "Notices" => input' = input]_vars

\* "title" looked up in a list whose first entry has no description and
\* whose second is titled "Title": the description of the second is returned
C21_Witness ==
    /\ ty = "Notices" /\ op = "lookup"
    /\ input.title = "title"
    /\ input.notices = << NoticeOrRemark(Some("title"), None),
                          NoticeOrRemark(Some("Title"), Some(<<"Ahoj">>)) >>
    /\ output = Found(Some(<<"Ahoj">>))

(***************************************************************************)
(* The order of the timestamp grammars.                                    *)
(***************************************************************************)
HasT(s) == \E i \in 1..Len(s) : SubSeq(s, i, i) = "T"

IsUtc(r) == r.ok => r.val.offset = 0

\* C22: RFC 3339 is tried first; when it fails and the string contains 'T',
\* the no-offset seconds form as UTC and then the 'Z'-and-offset form; when
\* it fails and the string contains no 'T', the space-delimited form as UTC
\* and nothing else; the result is that of the first grammar that accepts,
\* and the decode fails when none on the path accepts
C22_GrammarOrder ==
    DateTimeDecoded =>
        LET s == input.str
            rfc3339 == parse_from_rfc3339(s)
            seconds == Utc_datetime_from_str(s, FMT_T)
            zOffset == parse_from_str(s, FMT_T_Z_OFFSET)
            spaced == Utc_datetime_from_str(s, FMT_SPACE)
        IN  /\ rfc3339.ok => result = rfc3339
            /\ (~rfc3339.ok /\ HasT(s)) =>
                  /\ seconds.ok => result = seconds /\ IsUtc(result)
                  /\ (~seconds.ok /\ zOffset.ok) => result = zOffset
                  /\ (~seconds.ok /\ ~zOffset.ok) => ~result.ok
            /\ (~rfc3339.ok /\ ~HasT(s)) =>
                  /\ spaced.ok => result = spaced /\ IsUtc(result)
                  /\ ~spaced.ok => ~result.ok

\* a string that neither RFC 3339 nor the no-offset form accepts has been
\* decoded by the 'Z'-and-offset form, the third grammar on its path
C22_Witness ==
    /\ DateTimeDecoded
    /\ input = JStr("2015-08-25T08:18:43Z+0800")
    /\ ~parse_from_rfc3339(input.str).ok
    /\ ~Utc_datetime_from_str(input.str, FMT_T).ok
    /\ result.ok
    /\ result = parse_from_str(input.str, FMT_T_Z_OFFSET)

(***************************************************************************)
(* The shape of a JCard.                                                   *)
(***************************************************************************)
JCardDecoded == ty = "JCard" /\ op # "input"

\* C23: a JCard decodes only from an array of exactly two elements, the
\* first the type tag "vcard" and the second an array; an array of one or of
\* three or more elements, or one with another type tag, does not decode
C23_JCardExactlyTwoElements ==
    JCardDecoded =>
        /\ result.ok =>
              /\ input.jt = "array"
              /\ Len(input.items) = 2
              /\ input.items[1] = JStr("vcard")
              /\ input.items[2].jt = "array"
        /\ (input.jt = "array" /\ Len(input.items) # 2) => ~result.ok
        /\ (input.jt = "array" /\ Len(input.items) >= 1
              /\ input.items[1] # JStr("vcard")) => ~result.ok

\* the JCard of the test followed by a third element has not decoded
C23_Witness ==
    /\ JCardDecoded
    /\ input = JArr(<< JStr("vcard"), JArr(TestCardItems), JStr("x") >>)
    /\ ~result.ok

(***************************************************************************)
(* The values of a JCard item.                                             *)
(***************************************************************************)
\* the array is name, parameters, type identifier and then the values of item
EncodesItem(array, item) ==
    /\ array.jt = "array"
    /\ Len(array.items) = 3 + Len(item.values)
    /\ Len(array.items) >= 4
    /\ array.items[1] = JStr(item.property_name)
    /\ array.items[2] = JObj(item.parameters)
    /\ array.items[3] = JCardItemDataType_serialize(item.type_identifier)
    /\ \A i \in 1..Len(item.values) : array.items[3 + i] = item.values[i]

\* C24: a decoded JCardItem, alone or in a JCard, has at least one value,
\* and its encoding is the array of its name, its parameters, its type
\* identifier and its values, 3 + (number of values) elements and so at
\* least four
C24_ItemHasValues ==
    /\ (JCardItemDecoded /\ result.ok) =>
          /\ Len(result.val.values) >= 1
          /\ op = "encode" => EncodesItem(output, result.val)
    /\ (JCardDecoded /\ result.ok) =>
          /\ \A i \in 1..Len(result.val.items) : Len(result.val.items[i].values) >= 1
          /\ op = "encode" =>
                /\ Len(output.items[2].items) = Len(result.val.items)
                /\ \A i \in 1..Len(result.val.items) :
                       EncodesItem(output.items[2].items[i], result.val.items[i])

\* an item of two values has been decoded and encoded as five elements
C24_Witness ==
    /\ ty = "JCardItem" /\ op = "encode"
    /\ Len(input.items) = 5
    /\ Len(result.val.values) = 2
    /\ Len(output.items) = 5

(***************************************************************************)
(* Known variants and their wire spellings.                                *)
(***************************************************************************)
\* the encoding of the known variant v is a string that decodes to v
DecodesBack(v) ==
    /\ Enum_serialize(v).jt = "string"
    /\ Enum_deserialize(v.enum, Enum_serialize(v).str) = Ok(v)

\* C25 as stated: a known variant that has been encoded decodes, from the
\* string the encoding emitted, to the same variant again; every known
\* variant of the five enumerations is decoded and encoded by some run
C25_KnownVariantDecodesBack ==
    (ty \in OpenEnums /\ op = "encode" /\ result.val.variant # "Unknown") =>
        /\ output = Enum_serialize(result.val)
        /\ DecodesBack(result.val)

(***************************************************************************)
(* Lookup of the items of a JCard by name.                                 *)
(***************************************************************************)
\* the places of the items of the decoded JCard that are named n
PlacesNamed(n) ==
    {i \in 1..Len(result.val.items) : result.val.items[i].property_name = n}

\* the k-th of them, in the order of the JCard
PlaceNamed(n, k) ==
    CHOOSE i \in PlacesNamed(n) : Cardinality({j \in PlacesNamed(n) : j < i}) = k - 1

ItemsNamedInOrder ==
    (ty = "JCard" /\ op = "lookup") =>
        /\ Len(output.found) = Cardinality(PlacesNamed(output.name))
        /\ \A k \in 1..Len(output.found) :
               output.found[k] = result.val.items[PlaceNamed(output.name, k)]
        /\ HasUppercase(output.name) => output.found = <<>>

\* C26: items_by_name returns, in their order in the JCard, exactly the
\* items whose stored name is the name looked up character for character,
\* and leaves the JCard unchanged; a name with an uppercase letter finds no
\* item of a decoded JCard
C26_ItemsByName ==
    /\ []ItemsNamedInOrder
    /\ [][(ty = "JCard" /\ op' = "lookup") => result' = result]_vars

\* "fn" looked up in the JCard of the test followed by an item sent as "FN":
\* the second and the fifth item are returned, in this order
C26_Witness ==
    /\ ty = "JCard" /\ op = "lookup"
    /\ input.items[2].items = TestCardItems \o <<SecondName>>
    /\ output.name = "fn"
    /\ output.found = <<result.val.items[2], result.val.items[5]>>
    /\ result.val.items[2] # result.val.items[5]

====
